---- MODULE Spec2Model ----
(***************************************************************************)
(* CircleUp: local/remote reconciliation (src/lib/firestoreSync.ts), the   *)
(* auth-state effect, the manual sync, the account upgrade and the         *)
(* write-through sync effect (src/App.tsx).                                *)
(*                                                                         *)
(* A collection is a map from record id to record.  A record is a function *)
(* from the fields it has to their values; the id is the key of the map.   *)
(* Ids are unique within a collection (spec section 3), so the local       *)
(* array is modelled by the same kind of map as the remote collection.     *)
(***************************************************************************)
EXTENDS Integers, Sequences, FiniteSets, TLC

\* ---------------------------------------------------------------- bounds
MaxTs == 2          \* stored updatedAt values range over 0..MaxTs
MaxRuns == 2        \* migrateLocalToCloud calls in one behaviour
MaxEvents == 3      \* sign-in, sign-out, replayed auth callbacks, manual syncs, upgrades
MaxEdits == 2       \* records saved or deleted by the user or by another device
MaxPending == 1     \* write batches of this client in flight
MaxDate == 2        \* dates (lastConnection, interaction date) range over 0..MaxDate
MaxGestures == 3    \* pointer-downs on the row in one behaviour
MaxPointers == 2    \* pointers down on the row at once
MaxAsks == 3        \* entries of the ask history

\* ------------------------------------------------------- program constants
\* firestoreSync.ts:40 -- the order in which the collections are merged
Collections ==
  <<"people", "groups", "interactions", "activities", "supportRequests", "askHistory">>
ColNames == {Collections[i] : i \in 1..Len(Collections)}
\* firestoreSync.ts:97 -- reminderLookahead ?? 7
DefaultLookahead == "7"
\* firestoreSync.ts:98 -- theme || 'light'
DefaultTheme == "light"

\* ----------------------------------------------------------- value spaces
Users == {"u1", "u2"}
Ids == {"1", "2"}
NoRecords == [i \in {} |-> i]
Null == "null"

\* the four settings keys of localStorage, none of them set
NoSettings == [circles |-> Null, connectionTypes |-> Null,
               reminderLookahead |-> Null, theme |-> Null]
\* App.tsx:63-74 and 129-134: the settings React state starts with when
\* localStorage has none, which the state-to-localStorage effect then stores
DefaultSettings == [circles |-> "[Family,Friend,Work,Neighbor]",
                    connectionTypes |-> "[Call,Text,Visit,Hang out,Meal,Activity]",
                    reminderLookahead |-> "7", theme |-> "dark"]

\* A record with the optional fields present only when given.
MkRec(name, note, ts) ==
  [f \in {"name"} \cup (IF note # "" THEN {"note"} ELSE {})
                  \cup (IF ts # -1 THEN {"updatedAt"} ELSE {}) |->
     IF f = "name" THEN name ELSE IF f = "note" THEN note ELSE ts]

Payloads == {<<"A", "">>, <<"B", "">>, <<"A", "n">>}
Stamps == {-1} \cup (0..MaxTs)
Records == {MkRec(p[1], p[2], ts) : p \in Payloads, ts \in Stamps}
\* the second id carries one fixed record, present or absent on either side
SecondRecords == {MkRec("B", "", 1)}

\* people, groups, interactions and support requests with the fields the
\* lastConnection pass and the cascade of a delete read; a date is a day
\* number, 0 standing for new Date(0), "never connected"
PersonRec(lc) == [name |-> "A", lastConnection |-> lc]
InteractionRec(d, ps, gs) == [date |-> d, personIds |-> ps, groupIds |-> gs]
Dates == 1..MaxDate
IdLists == {<< >>, <<"1">>, <<"2">>, <<"1", "2">>, <<"2", "1">>}
GroupRec(members) == [name |-> "G", memberIds |-> members]
SupportRec(helpers) == [name |-> "S", helperIds |-> helpers]

VARIABLES
  localCols,        \* localStorage: the six collection keys, parsed
  localSettings,    \* localStorage: circles, connectionTypes, reminderLookahead, theme
  realtimeInitialized, \* localStorage: circleup_realtime_initialized
  remoteCols,       \* Firestore: users/{uid}/{col}/{id}
  remoteSettings,   \* Firestore: users/{uid}/meta/settings (NoRecords = no document)
  clock,            \* Date.now()
  mig,              \* the migrateLocalToCloud call in progress
  writes,           \* the writes issued by the current migrateLocalToCloud call
  runs,             \* migrateLocalToCloud calls completed
  authUser,         \* auth.currentUser, which the auth callback copies to currentUser
  pulls,            \* the pullRemoteToLocal calls in progress
  syncUnsubRef,     \* syncUnsubRef.current: the listener sets whose handles it holds
  subs,             \* the listener sets that are subscribed
  started,          \* listener sets started so far
  upgradeTimer,     \* the setTimeout of the upgrade modal is pending
  reconciled,       \* a migrateLocalToCloud of the signed-in user completed in this session
  events,           \* sign-in, sign-out, replay, upgrade and manual sync events so far
  state,            \* React state: people, groups, ...
  settingsState,    \* React state: circles, connectionTypes, reminderLookahead, isDarkMode
  debounced,        \* useDebounce of the six collections
  debouncedSettings, \* useDebounce of the settings object
  persistDue,       \* the state-to-localStorage effect is scheduled
  effectDue,        \* the write-through effect is scheduled: currentUser changed
  pending,          \* write batches committed by this client, not yet acknowledged
  edits,            \* user and other-device edits so far
  lastEvent,        \* the step taken last
  swipe             \* one SwipeableListItem: its refs, its element and its timers

dataVars == <<localCols, localSettings, realtimeInitialized, remoteCols, remoteSettings>>
migVars == <<mig, writes, runs, clock>>
authVars == <<authUser, pulls, syncUnsubRef, subs, started, upgradeTimer, reconciled, events>>
reactVars == <<state, settingsState, debounced, debouncedSettings, persistDue, effectDue>>
netVars == <<pending, edits>>
vars == <<dataVars, migVars, authVars, reactVars, netVars, lastEvent, swipe>>

NoUser == [uid |-> "", anon |-> FALSE]
Ev(kind) == [kind |-> kind, uid |-> "", col |-> "", pending |-> FALSE, called |-> FALSE]

\* SwipeableListItem.tsx:13-26, a mounted row: its props, no listener on
\* window, the refs at their initial values, the element at offset 0, no
\* timer pending.  beyondThreshold records the input of the current gesture:
\* whether a pointermove delivered since the pointer-down that began it (the
\* one that found no listener of the row on window) reported a horizontal
\* displacement above DRAG_THRESHOLD
RowAtRest(left, right) ==
  [onFullSwipeLeft |-> left, onFullSwipeRight |-> right, isDisabled |-> FALSE,
   listeners |-> 0, isDragging |-> FALSE, isScrolling |-> FALSE,
   currentTranslateX |-> [num |-> 0, den |-> 1], transform |-> [num |-> 0, den |-> 1],
   timers |-> << >>, called |-> << >>, clicks |-> 0, gestures |-> 0,
   beyondThreshold |-> FALSE]

\* ------------------------------------------------------------ pure helpers
Has(r, f) == f \in DOMAIN r

\* item.updatedAt || Date.now(): a missing and a zero timestamp are both falsy
OrNow(r, now) == IF Has(r, "updatedAt") /\ r["updatedAt"] # 0 THEN r["updatedAt"] ELSE now

\* { ...item, id, updatedAt: item.updatedAt || Date.now() }
LocalItem(item, now) ==
  [f \in DOMAIN item \cup {"updatedAt"} |->
     IF f = "updatedAt" THEN OrNow(item, now) ELSE item[f]]

\* Number(x.updatedAt || 0)
TsOf(r) == IF Has(r, "updatedAt") THEN r["updatedAt"] ELSE 0

\* localTs >= remoteTs ? localItem : remoteItem
Prefer(localItem, remoteItem) ==
  IF TsOf(localItem) >= TsOf(remoteItem) THEN localItem ELSE remoteItem

\* mutant: the merged map starts empty instead of as a copy of the remote map
MergedMap_DropsRemote(remoteMap, localArr, now) ==
  [id \in DOMAIN localArr |-> LocalItem(localArr[id], now)]

\* the merged map: starts as a copy of the remote map, then every local item
\* is inserted or compared with the remote item of the same id
MergedMap(remoteMap, localArr, now) ==
  [id \in DOMAIN remoteMap \cup DOMAIN localArr |->
     IF id \notin DOMAIN localArr THEN remoteMap[id]
     ELSE IF id \notin DOMAIN remoteMap THEN LocalItem(localArr[id], now)
     ELSE Prefer(LocalItem(localArr[id], now), remoteMap[id])]

\* JSON.stringify of a record: the fields it has, each with its value
FieldOrder ==
  <<"name", "note", "updatedAt", "lastConnection", "date", "personIds", "groupIds",
    "memberIds", "helperIds", "snoozedUntil", "frequency", "isMe", "showOnDashboard">>
JSONstringify(r) ==
  LET present == SelectSeq(FieldOrder, LAMBDA f : f \in DOMAIN r)
  IN  [i \in 1..Len(present) |-> <<present[i], r[present[i]]>>]

\* mutant: no merged record is taken to equal the remote one
EqualToRemote_Never(remoteMap, id, it) == FALSE

\* remote && JSON.stringify(remote) === JSON.stringify(it)
EqualToRemote(remoteMap, id, it) ==
  id \in DOMAIN remoteMap /\ JSONstringify(remoteMap[id]) = JSONstringify(it)

\* the documents put in the batch: the merged records not equal to the remote one
BatchOf(remoteMap, merged, now) ==
  [id \in {i \in DOMAIN merged : ~EqualToRemote(remoteMap, i, merged[i])} |->
     LocalItem(merged[id], now)]

\* set(ref, data, { merge: true }): the fields of data replace those of the
\* stored document, the other stored fields stay
SetMerge(old, new) ==
  [f \in DOMAIN old \cup DOMAIN new |-> IF f \in DOMAIN new THEN new[f] ELSE old[f]]

\* batch.commit() on a collection
CommitBatch(col, batch) ==
  [id \in DOMAIN col \cup DOMAIN batch |->
     IF id \notin DOMAIN batch THEN col[id]
     ELSE IF id \in DOMAIN col THEN SetMerge(col[id], batch[id])
     ELSE batch[id]]

\* local.circles || [], ..., local.reminderLookahead ?? 7, local.theme || 'light'
MergedSettings(local, now) ==
  [circles |-> IF local.circles = Null THEN "[]" ELSE local.circles,
   connectionTypes |-> IF local.connectionTypes = Null THEN "[]" ELSE local.connectionTypes,
   reminderLookahead |-> IF local.reminderLookahead = Null THEN DefaultLookahead
                         ELSE local.reminderLookahead,
   theme |-> IF local.theme = Null THEN DefaultTheme ELSE local.theme,
   updatedAt |-> now]

\* ------------------------------------------------------ migrateLocalToCloud
Idle == [pc |-> "idle", uid |-> "", caller |-> "", idx |-> 0, local |-> [c \in ColNames |-> NoRecords],
         settings |-> [circles |-> Null, connectionTypes |-> Null,
                       reminderLookahead |-> Null, theme |-> Null],
         remoteMap |-> NoRecords, merged |-> NoRecords, batch |-> NoRecords,
         remote0 |-> [c \in ColNames |-> NoRecords]]

\* lines 29-34: a stored value that JSON.parse rejects; migrateLocalToCloud
\* keeps the raw string
Malformed == [raw |-> "{"]

\* line 51: local[col] && Array.isArray(local[col]) ? local[col] : []
LocalArr(value) == IF value = Malformed THEN NoRecords ELSE value

\* A pullRemoteToLocal call as it starts: nothing fetched yet.
NewPull(caller, uid) ==
  [caller |-> caller, uid |-> uid, idx |-> 1, result |-> [c \in ColNames |-> NoRecords]]

\* lines 20-38: the guard on uid and the read of every localStorage key;
\* the first getDocs is issued
MigrateStart(uid, caller) ==
  /\ mig.pc = "idle"
  /\ runs < MaxRuns
  /\ uid # ""
  /\ mig' = [Idle EXCEPT !.pc = "fetch", !.uid = uid, !.caller = caller, !.idx = 1,
                         !.local = localCols, !.settings = localSettings,
                         !.remote0 = remoteCols[uid]]
  /\ writes' = {}
  /\ clock' = clock + 1
  /\ UNCHANGED runs

\* lines 44-83: getDocs resolves; the merged map and the batch are built and
\* batch.commit() is issued
MigrateFetch ==
  /\ mig.pc = "fetch"
  /\ LET col == Collections[mig.idx]
         remoteMap == remoteCols[mig.uid][col]
         merged == MergedMap(remoteMap, LocalArr(mig.local[col]), clock)
         batch == BatchOf(remoteMap, merged, clock)
     IN  /\ mig' = [mig EXCEPT !.pc = "commit", !.remoteMap = remoteMap,
                               !.merged = merged, !.batch = batch]
         /\ writes' = writes \cup {<<col, id>> : id \in DOMAIN batch}
  /\ lastEvent' = Ev("migrate")
  /\ UNCHANGED swipe
  /\ UNCHANGED <<dataVars, clock, runs, authVars, reactVars, netVars>>

\* lines 83-101: the commit resolves; localStorage gets the merged set; the
\* next getDocs or, after the last collection, the settings setDoc is issued
MigrateCommit ==
  /\ mig.pc = "commit"
  /\ LET col == Collections[mig.idx]
     IN  /\ remoteCols' = [remoteCols EXCEPT
                             ![mig.uid][col] = CommitBatch(@, mig.batch)]
         /\ localCols' = [localCols EXCEPT ![col] = mig.merged]
  /\ IF mig.idx < Len(Collections)
       THEN /\ mig' = [mig EXCEPT !.pc = "fetch", !.idx = @ + 1]
            /\ writes' = writes
       ELSE /\ mig' = [mig EXCEPT !.pc = "settings"]
            /\ writes' = writes \cup {<<"meta", "settings">>}
  /\ lastEvent' = Ev("migrate")
  /\ UNCHANGED swipe
  /\ UNCHANGED <<localSettings, realtimeInitialized, remoteSettings, clock, runs,
                 authVars, reactVars, netVars>>

\* lines 101-103: setDoc(settingsRef, mergedSettings, { merge: true }) resolves
\* and the call returns to its caller: SyncModal.handleUploadLocal ("upload"),
\* App onManualSync (App.tsx:877-878, which goes on with pullRemoteToLocal) or
\* UpgradeAccountModal (UpgradeAccountModal.tsx:34-40, which sets a timer)
MigrateSettings ==
  /\ mig.pc = "settings"
  /\ remoteSettings' = [remoteSettings EXCEPT
                          ![mig.uid] = SetMerge(@, MergedSettings(mig.settings, clock))]
  /\ mig' = [mig EXCEPT !.pc = "idle"]
  /\ runs' = runs + 1
  /\ reconciled' = (reconciled \/ mig.uid = authUser.uid)
  /\ pulls' = IF mig.caller = "manual" THEN Append(pulls, NewPull("manual", mig.uid))
              ELSE pulls
  /\ upgradeTimer' = (upgradeTimer \/ mig.caller = "upgrade")
  /\ lastEvent' = Ev("migrate")
  /\ UNCHANGED swipe
  /\ UNCHANGED <<localCols, localSettings, realtimeInitialized, remoteCols, clock, writes,
                 authUser, syncUnsubRef, subs, started, events, reactVars, netVars>>

\* mutant: the failed call goes on to the settings document
MigrateFetchFail_WritesSettings ==
  /\ mig.pc = "fetch"
  /\ mig' = [mig EXCEPT !.pc = "failed"]
  /\ remoteSettings' = [remoteSettings EXCEPT
                          ![mig.uid] = SetMerge(@, MergedSettings(mig.settings, clock))]
  /\ writes' = writes \cup {<<"meta", "settings">>}
  /\ lastEvent' = Ev("failed")
  /\ UNCHANGED swipe
  /\ UNCHANGED <<localCols, localSettings, realtimeInitialized, remoteCols, runs, clock,
                 authVars, reactVars, netVars>>

\* line 44: getDocs rejects.  Nothing in migrateLocalToCloud catches it, so
\* the call ends there and its promise rejects; each caller catches the error
\* and reports it (SyncModal.tsx:70-72, App.tsx:891-893,
\* UpgradeAccountModal.tsx:41-43) without going on to what follows its call.
\* mig.pc = "failed" records the outcome.
MigrateFetchFail ==
  /\ mig.pc = "fetch"
  /\ mig' = [mig EXCEPT !.pc = "failed"]
  /\ lastEvent' = Ev("failed")
  /\ UNCHANGED swipe
  /\ UNCHANGED <<dataVars, writes, runs, clock, authVars, reactVars, netVars>>

\* SyncModal.handleUploadLocal: migrateLocalToCloud(auth.currentUser.uid)
UploadLocal ==
  /\ authUser # NoUser
  /\ MigrateStart(authUser.uid, "upload")
  /\ lastEvent' = Ev("migrate")
  /\ UNCHANGED swipe
  /\ UNCHANGED <<dataVars, authVars, reactVars, netVars>>

\* ------------------------------------------------- pullRemoteToLocal
\* relevant.map(i => i.date).sort().reverse()[0]: dates are ISO strings of one
\* format, whose lexicographic order is the order of the day numbers used here
Latest(dates) == CHOOSE d \in dates : \A e \in dates : e <= d

\* lines 123-132, getLatestConnectionDateForPerson / ...ForGroup: the dates of
\* the interactions whose personIds (groupIds) include the id
RelevantDates(interactions, refField, id) ==
  {interactions[i]["date"] : i \in {j \in DOMAIN interactions :
       Has(interactions[j], refField) /\ id \in interactions[j][refField]}}

\* mutant: the recomputation pass is left out
UpdatedItems_Keep(result, c) == result[c]

\* lines 118-147: lastConnection of every person and group is recomputed from
\* the interactions that reference it; with no such interaction the item is
\* returned as fetched
UpdatedItems(result, c) ==
  LET refField == IF c = "people" THEN "personIds" ELSE "groupIds"
  IN  [id \in DOMAIN result[c] |->
         LET relevant == RelevantDates(result["interactions"], refField, id)
             p == result[c][id]
         IN  IF relevant = {} THEN p
             ELSE [f \in DOMAIN p \cup {"lastConnection"} |->
                     IF f = "lastConnection" THEN Latest(relevant) ELSE p[f]]]

\* lines 110-116: getDocs of one collection resolves and its items go to
\* localStorage; after the last collection (lines 118-152) people and groups
\* are written again from what this call fetched, and the meta read is issued
PullFetch(i) ==
  /\ i \in 1..Len(pulls)
  /\ pulls[i].idx <= Len(Collections)
  /\ LET p == pulls[i]
         col == Collections[p.idx]
         items == remoteCols[p.uid][col]
         result == [p.result EXCEPT ![col] = items]
     IN  /\ pulls' = [pulls EXCEPT ![i] = [p EXCEPT !.idx = @ + 1, !.result = result]]
         /\ localCols' =
              IF p.idx < Len(Collections)
                THEN [localCols EXCEPT ![col] = items]
                ELSE [localCols EXCEPT ![col] = items,
                                       !["people"] = UpdatedItems(result, "people"),
                                       !["groups"] = UpdatedItems(result, "groups")]
  /\ lastEvent' = Ev("pull")
  /\ UNCHANGED swipe
  /\ UNCHANGED <<localSettings, realtimeInitialized, remoteCols, remoteSettings, migVars,
                 authUser, syncUnsubRef, subs, started, upgradeTimer, reconciled, events,
                 reactVars, netVars>>

\* startRealtimeSync(uid, handlers), lines 161-224: a listener per collection
\* and one for the settings document, all for uid
NewSub(uid) == [sid |-> started + 1, uid |-> uid, afterMerge |-> reconciled]

RemoveAt(seq, i) == [j \in 1..(Len(seq) - 1) |-> IF j < i THEN seq[j] ELSE seq[j + 1]]

\* lines 157-158: pullRemoteToLocal returns.  In the auth callback
\* (App.tsx:199-215) the listeners are started and their handles stored; in
\* onManualSync (App.tsx:879-890) React state is reloaded from localStorage.
PullReturn(i) ==
  /\ i \in 1..Len(pulls)
  /\ pulls[i].idx > Len(Collections)
  /\ pulls[i].caller # "modal"
  /\ pulls' = RemoveAt(pulls, i)
  /\ IF pulls[i].caller = "auth"
       THEN /\ subs' = subs \cup {NewSub(pulls[i].uid)}
            /\ syncUnsubRef' = {started + 1}
            /\ started' = started + 1
            /\ UNCHANGED reactVars
       ELSE /\ state' = localCols
            /\ settingsState' =
                 IF localSettings.reminderLookahead # Null
                   THEN [settingsState EXCEPT
                           !.reminderLookahead = localSettings.reminderLookahead]
                   ELSE settingsState
            /\ persistDue' = TRUE
            /\ UNCHANGED <<subs, syncUnsubRef, started, debounced, debouncedSettings,
                           effectDue>>
  /\ lastEvent' = Ev("pull")
  /\ UNCHANGED swipe
  /\ UNCHANGED <<dataVars, migVars, authUser, upgradeTimer, reconciled, events, netVars>>

\* SyncModal.tsx:78-84, handlePullRemote: pullRemoteToLocal(auth.currentUser.uid);
\* the buttons of the modal are disabled while one of its calls is running
\* (SyncModal.tsx:134-148)
PullRemote ==
  /\ authUser # NoUser
  /\ \A j \in 1..Len(pulls) : pulls[j].caller # "modal"
  /\ ~(mig.pc # "idle" /\ mig.caller = "upload")
  /\ events < MaxEvents
  /\ pulls' = Append(pulls, NewPull("modal", authUser.uid))
  /\ events' = events + 1
  /\ lastEvent' = Ev("pull")
  /\ UNCHANGED swipe
  /\ UNCHANGED <<dataVars, migVars, authUser, syncUnsubRef, subs, started, upgradeTimer,
                 reconciled, reactVars, netVars>>

\* App.tsx:43-82: the settings React state starts with, read from localStorage
LoadSettings(ls) ==
  [f \in DOMAIN ls |-> IF ls[f] = Null THEN DefaultSettings[f] ELSE ls[f]]

\* SyncModal.tsx:85-87: pullRemoteToLocal returned success and the page is
\* reloaded.  Every call in flight and every listener ends with the page;
\* React state is read from localStorage again (App.tsx:43-82) and the auth
\* listener is registered and called with the signed-in user (App.tsx:166-194).
\* Whether writes the server has not acknowledged survive is up to the SDK.
PullReload(i) ==
  /\ i \in 1..Len(pulls)
  /\ pulls[i].idx > Len(Collections)
  /\ pulls[i].caller = "modal"
  /\ pulls' = IF authUser # NoUser /\ ~authUser.anon
                THEN << NewPull("auth", authUser.uid) >> ELSE << >>
  /\ mig' = Idle
  /\ subs' = {}
  /\ syncUnsubRef' = {}
  /\ upgradeTimer' = FALSE
  /\ reconciled' = FALSE
  /\ state' = localCols
  /\ settingsState' = LoadSettings(localSettings)
  /\ debounced' = state'
  /\ debouncedSettings' = settingsState'
  /\ persistDue' = FALSE
  /\ effectDue' = TRUE
  /\ pending' \in {pending, << >>}
  /\ lastEvent' = Ev("reload")
  /\ UNCHANGED swipe
  /\ UNCHANGED <<dataVars, writes, runs, clock, authUser, started, events, edits>>

\* ------------------------------------------ App: the onAuthStateChanged effect
\* App.tsx:166-219, the callback up to its first await: currentUser is set,
\* the handles in syncUnsubRef are invoked and the ref is cleared; for a
\* signed-in, non-anonymous user pullRemoteToLocal is called
AuthCallback(user) ==
  /\ subs' = {s \in subs : s.sid \notin syncUnsubRef}
  /\ syncUnsubRef' = {}
  /\ pulls' = IF user # NoUser /\ ~user.anon
                THEN Append(pulls, NewPull("auth", user.uid))
                ELSE pulls
  /\ effectDue' = TRUE
  /\ events' = events + 1
  /\ lastEvent' = [Ev("auth") EXCEPT !.uid = user.uid]
  /\ UNCHANGED swipe
  /\ UNCHANGED <<dataVars, migVars, started, upgradeTimer, netVars,
                 state, settingsState, debounced, debouncedSettings, persistDue>>

\* LoginScreen: signInWithEmailAndPassword, signInWithPopup, signInAnonymously;
\* the auth callback runs with the new user
SignIn(uid, anon) ==
  /\ authUser = NoUser
  /\ events < MaxEvents
  /\ authUser' = [uid |-> uid, anon |-> anon]
  /\ reconciled' = FALSE
  /\ AuthCallback(authUser')

\* SettingsModal.tsx:443-453: signOut(auth); the auth callback runs with null
SignOut ==
  /\ authUser # NoUser
  /\ events < MaxEvents
  /\ authUser' = NoUser
  /\ reconciled' = FALSE
  /\ AuthCallback(NoUser)

\* App.tsx:164-225: the effect depends on [bootStage, currentUser], so it
\* registers the listener again when either changes, and a listener is called
\* with the current user when it is registered
AuthReplay ==
  /\ events < MaxEvents
  /\ UNCHANGED <<authUser, reconciled>>
  /\ AuthCallback(authUser)

\* App.tsx:873-878, onManualSync: migrateLocalToCloud(auth.currentUser.uid)
ManualSync ==
  /\ authUser # NoUser
  /\ events < MaxEvents
  /\ MigrateStart(authUser.uid, "manual")
  /\ events' = events + 1
  /\ lastEvent' = Ev("migrate")
  /\ UNCHANGED swipe
  /\ UNCHANGED <<dataVars, authUser, pulls, syncUnsubRef, subs, started, upgradeTimer,
                 reconciled, reactVars, netVars>>

\* UpgradeAccountModal.tsx:20-34: the guest account is linked, then
\* migrateLocalToCloud(auth.currentUser.uid)
UpgradeAccount ==
  /\ authUser # NoUser /\ authUser.anon
  /\ events < MaxEvents
  /\ authUser' = [authUser EXCEPT !.anon = FALSE]
  /\ MigrateStart(authUser.uid, "upgrade")
  /\ events' = events + 1
  /\ effectDue' = TRUE
  /\ lastEvent' = Ev("migrate")
  /\ UNCHANGED swipe
  /\ UNCHANGED <<dataVars, pulls, syncUnsubRef, subs, started, upgradeTimer, reconciled,
                 state, settingsState, debounced, debouncedSettings, persistDue, netVars>>

\* App.tsx:903-921, onUpgradeSuccess, called by the timer of the upgrade
\* modal: startRealtimeSync for auth.currentUser; the handles are dropped
UpgradeTimerFire ==
  /\ upgradeTimer
  /\ upgradeTimer' = FALSE
  /\ IF authUser # NoUser /\ ~authUser.anon
       THEN /\ subs' = subs \cup {NewSub(authUser.uid)}
            /\ started' = started + 1
       ELSE UNCHANGED <<subs, started>>
  /\ lastEvent' = Ev("timer")
  /\ UNCHANGED swipe
  /\ UNCHANGED <<dataVars, migVars, authUser, pulls, syncUnsubRef, reconciled, events,
                 reactVars, netVars>>

\* ------------------------------------------------------ syncStateToCloud
\* lines 240-248, upsertCollection: every item of the state is set with merge
Upserts(st) == st.cols

\* mutant: the flag is not consulted
Initialized_Always(flag) == TRUE

\* line 254: localStorage.getItem('circleup_realtime_initialized') === '1'
Initialized(flag) == flag = "1"

\* lines 252-269, maybeDeleteMissing: once realtime has initialized, the ids
\* that localStorage holds for a collection and the state does not
DeleteMissing(flag, ls, st) ==
  IF ~Initialized(flag) THEN {}
  ELSE {x \in ColNames \X Ids :
          x[2] \in DOMAIN ls[x[1]] /\ x[2] \notin DOMAIN st.cols[x[1]]}

\* lines 284-287: { ...state.settings }, the settings keys that have a value
SettingsDoc(st) ==
  [f \in {k \in {"circles", "connectionTypes", "reminderLookahead", "theme"} : st[k] # Null} |->
     st[f]]

\* lines 228-290: the batch syncStateToCloud commits
SyncBatch(uid, flag, ls, st) ==
  [uid |-> uid, upserts |-> Upserts(st), deletes |-> DeleteMissing(flag, ls, st),
   settings |-> SettingsDoc(st.settings)]

\* a batch applied by the server: sets merge into the stored documents,
\* deletes remove them, the settings fields merge into the settings document
ApplyCols(cols, op) ==
  [c \in ColNames |->
     LET set == CommitBatch(cols[c], op.upserts[c])
         keep == {id \in DOMAIN set : <<c, id>> \notin op.deletes}
     IN  [id \in keep |-> set[id]]]

\* the batch at the head of the queue is acknowledged by the server
CommitNext ==
  /\ pending # << >>
  /\ LET op == Head(pending)
     IN  /\ remoteCols' = [remoteCols EXCEPT ![op.uid] = ApplyCols(@, op)]
         /\ remoteSettings' =
              [remoteSettings EXCEPT ![op.uid] = SetMerge(@, op.settings)]
  /\ pending' = Tail(pending)
  /\ lastEvent' = Ev("commit")
  /\ UNCHANGED swipe
  /\ UNCHANGED <<localCols, localSettings, realtimeInitialized, migVars, authVars,
                 reactVars, edits>>

\* ------------------------------------------------ App: write-through effect
\* mutant: the effect never skips
AllEmpty_Never(cols) == FALSE

\* App.tsx:968-969: every debounced collection is an empty array
AllEmpty(cols) == \A c \in ColNames : cols[c] = NoRecords

\* the deleted document, as a batch of its own
DeleteOp(uid, c, id) ==
  [uid |-> uid, upserts |-> [x \in ColNames |-> NoRecords], deletes |-> {<<c, id>>},
   settings |-> NoRecords]

\* App.tsx:962-983: the effect body; the batches in flight after it
WriteThrough(user, cols, settings) ==
  IF user.uid = "" \/ user.anon THEN pending
  ELSE IF AllEmpty(cols) THEN pending
  ELSE Append(pending, SyncBatch(user.uid, realtimeInitialized, localCols,
                                 [cols |-> cols, settings |-> settings]))

\* the effect runs because currentUser changed
EffectOnUser ==
  /\ effectDue
  /\ Len(pending) < MaxPending
  /\ effectDue' = FALSE
  /\ pending' = WriteThrough(authUser, debounced, debouncedSettings)
  /\ lastEvent' = [Ev("effect") EXCEPT !.called = (pending' # pending)]
  /\ UNCHANGED swipe
  /\ UNCHANGED <<dataVars, migVars, authVars, state, settingsState, debounced,
                 debouncedSettings, persistDue, edits>>

\* useDebounce(value, 1500): the debounced value follows the value once the
\* value has been stable for the delay
useDebounce(value) == value

\* App.tsx:949-954 and 962-983: a debounced collection catches up and the
\* effect runs with the new debounced values
DebounceFire(c) ==
  /\ debounced[c] # state[c]
  /\ Len(pending) < MaxPending
  /\ debounced' = [debounced EXCEPT ![c] = useDebounce(state[c])]
  /\ pending' = WriteThrough(authUser, debounced', debouncedSettings)
  /\ lastEvent' = [Ev("effect") EXCEPT !.called = (pending' # pending)]
  /\ UNCHANGED swipe
  /\ UNCHANGED <<dataVars, migVars, authVars, state, settingsState, debouncedSettings,
                 persistDue, effectDue, edits>>

\* App.tsx:955-960 and 962-983: the settings object is a new object at every
\* render, so its debounced copy is replaced after every render
DebounceSettingsFire ==
  /\ Len(pending) < MaxPending
  /\ debouncedSettings' = useDebounce(settingsState)
  /\ pending' = WriteThrough(authUser, debounced, debouncedSettings')
  /\ lastEvent' = [Ev("effect") EXCEPT !.called = (pending' # pending)]
  /\ UNCHANGED swipe
  /\ UNCHANGED <<dataVars, migVars, authVars, state, settingsState, debounced,
                 persistDue, effectDue, edits>>

\* App.tsx:251-271: the collections and the settings of React state are
\* written to localStorage
PersistEffect ==
  /\ persistDue
  /\ persistDue' = FALSE
  /\ localCols' = state
  /\ localSettings' = settingsState
  /\ lastEvent' = Ev("persist")
  /\ UNCHANGED swipe
  /\ UNCHANGED <<realtimeInitialized, remoteCols, remoteSettings, migVars, authVars,
                 state, settingsState, debounced, debouncedSettings, effectDue, netVars>>

\* ------------------------------------------------------ startRealtimeSync
\* this client has writes to collection c of uid that the server has not
\* acknowledged: snap.metadata.hasPendingWrites
HasPendingWrites(uid, c) ==
  \/ \E i \in 1..Len(pending) :
       /\ pending[i].uid = uid
       /\ (pending[i].upserts[c] # NoRecords \/ \E id \in Ids : <<c, id>> \in pending[i].deletes)
  \/ mig.pc = "commit" /\ mig.uid = uid /\ Collections[mig.idx] = c /\ mig.batch # NoRecords

SettingsPendingWrites(uid) ==
  \/ \E i \in 1..Len(pending) : pending[i].uid = uid /\ pending[i].settings # NoRecords
  \/ mig.pc = "settings" /\ mig.uid = uid

\* the documents of a snapshot: the server's, with the pending writes of this
\* client applied on top
RECURSIVE LocalView(_, _, _)
LocalView(cols, ops, uid) ==
  IF ops = << >> THEN cols
  ELSE LocalView(IF Head(ops).uid = uid THEN ApplyCols(cols, Head(ops)) ELSE cols,
                 Tail(ops), uid)

\* mutant: the snapshot carries no document
SnapshotItems_Empty(uid, c) == NoRecords

SnapshotItems(uid, c) ==
  LET base == LocalView(remoteCols[uid], pending, uid)[c]
  IN  IF mig.pc = "commit" /\ mig.uid = uid /\ Collections[mig.idx] = c
        THEN CommitBatch(base, mig.batch) ELSE base

\* mutant: the listener applies every snapshot
IgnoreEcho_Never(hasPendingWrites) == FALSE

\* lines 179-182: if (snap.metadata.hasPendingWrites) return
IgnoreEcho(hasPendingWrites) == hasPendingWrites

\* lines 177-191, the listener of collection c of listener set s
Notify(s, c) ==
  /\ s \in subs
  /\ LET hp == HasPendingWrites(s.uid, c)
         items == SnapshotItems(s.uid, c)
         ev == [Ev("notify") EXCEPT !.uid = s.uid, !.col = c, !.pending = hp]
     IN  IF IgnoreEcho(hp)
           THEN /\ lastEvent' = ev
                /\ UNCHANGED swipe
                /\ UNCHANGED <<localCols, realtimeInitialized, state, persistDue>>
           ELSE /\ localCols' = [localCols EXCEPT ![c] = items]
                /\ realtimeInitialized' = "1"
                /\ state' = [state EXCEPT ![c] = items]
                /\ persistDue' = TRUE
                /\ lastEvent' = [ev EXCEPT !.called = TRUE]
                /\ UNCHANGED swipe
  /\ UNCHANGED <<localSettings, remoteCols, remoteSettings, migVars, authVars,
                 settingsState, debounced, debouncedSettings, effectDue, netVars>>

\* lines 206-209: if (snap.metadata.hasPendingWrites) return
IgnoreSettingsEcho(hasPendingWrites) == hasPendingWrites

\* lines 213-216: the settings keys of localStorage after a settings snapshot
SettingsToLocal(ls, data) ==
  [circles |-> IF Has(data, "circles") THEN data["circles"] ELSE "[]",
   connectionTypes |-> IF Has(data, "connectionTypes") THEN data["connectionTypes"] ELSE "[]",
   reminderLookahead |-> IF Has(data, "reminderLookahead") THEN data["reminderLookahead"]
                         ELSE ls.reminderLookahead,
   theme |-> IF Has(data, "theme") THEN data["theme"] ELSE ls.theme]

\* App.tsx:207-212, onSettings: every field the document has goes to React state
OnSettings(st, data) ==
  [f \in DOMAIN st |-> IF Has(data, f) THEN data[f] ELSE st[f]]

\* lines 204-220, the listener of the settings document of listener set s
NotifySettings(s) ==
  /\ s \in subs
  /\ LET hp == SettingsPendingWrites(s.uid)
         data == remoteSettings[s.uid]
         ev == [Ev("notify") EXCEPT !.uid = s.uid, !.col = "settings", !.pending = hp]
     IN  IF IgnoreSettingsEcho(hp) \/ data = NoRecords
           THEN /\ lastEvent' = ev
                /\ UNCHANGED swipe
                /\ UNCHANGED <<localSettings, realtimeInitialized, settingsState, persistDue>>
           ELSE /\ localSettings' = SettingsToLocal(localSettings, data)
                /\ realtimeInitialized' = "1"
                /\ settingsState' = OnSettings(settingsState, data)
                /\ persistDue' = TRUE
                /\ lastEvent' = [ev EXCEPT !.called = TRUE]
                /\ UNCHANGED swipe
  /\ UNCHANGED <<localCols, remoteCols, remoteSettings, migVars, authVars,
                 state, debounced, debouncedSettings, effectDue, netVars>>

\* ------------------------------------------------------------ user actions
\* the collections the user edits in this model
EditCols == {"people", "groups"}
\* what the forms save: records without updatedAt
UserRecords == {MkRec("A", "", -1), MkRec("B", "", -1)}

\* App.tsx:275-302 handleSavePerson, 370-377 handleSaveGroup: the record
\* replaces the one with its id or is appended
SaveRecord(c, id, r) ==
  /\ edits < MaxEdits
  /\ state' = [state EXCEPT ![c] =
                 [i \in DOMAIN @ \cup {id} |-> IF i = id THEN r ELSE @[i]]]
  /\ persistDue' = TRUE
  /\ edits' = edits + 1
  /\ lastEvent' = Ev("edit")
  /\ UNCHANGED swipe
  /\ UNCHANGED <<dataVars, migVars, authVars, settingsState, debounced,
                 debouncedSettings, effectDue, pending>>

\* mutant: the lists of ids are left as they are
Cascade_Keep(rec, field, pid) == rec

\* App.tsx:306-307: { ...g, memberIds: g.memberIds.filter(id => id !== personId) },
\* for the records that carry the list
Cascade(rec, field, pid) ==
  IF Has(rec, field)
    THEN [rec EXCEPT ![field] = SelectSeq(@, LAMBDA x : x # pid)]
    ELSE rec

\* App.tsx:304-315 handleDeletePerson, 379-384 handleDeleteGroup: the record
\* is filtered out of React state; for a person its id is also removed from
\* the memberIds of every group and the helperIds of every support request,
\* and deleteDoc is called; for a group its id is removed from the helperIds
\* of every support request
DeleteRecord(c, id) ==
  /\ edits < MaxEdits
  /\ id \in DOMAIN state[c]
  /\ state' =
       IF c = "people"
         THEN [state EXCEPT
                 !["people"] = [i \in DOMAIN @ \ {id} |-> @[i]],
                 !["groups"] = [g \in DOMAIN @ |-> Cascade(@[g], "memberIds", id)],
                 !["supportRequests"] = [r \in DOMAIN @ |-> Cascade(@[r], "helperIds", id)]]
       ELSE IF c = "groups"
         THEN [state EXCEPT
                 !["groups"] = [i \in DOMAIN @ \ {id} |-> @[i]],
                 !["supportRequests"] = [r \in DOMAIN @ |-> Cascade(@[r], "helperIds", id)]]
         ELSE [state EXCEPT ![c] = [i \in DOMAIN @ \ {id} |-> @[i]]]
  /\ persistDue' = TRUE
  /\ edits' = edits + 1
  /\ IF c = "people" /\ authUser.uid # ""
       THEN /\ Len(pending) < MaxPending
            /\ pending' = Append(pending, DeleteOp(authUser.uid, c, id))
       ELSE pending' = pending
  /\ lastEvent' = Ev("delete")
  /\ UNCHANGED swipe
  /\ UNCHANGED <<dataVars, migVars, authVars, settingsState, debounced,
                 debouncedSettings, effectDue>>

\* App.tsx:273 toggleDarkMode
ToggleDarkMode ==
  /\ edits < MaxEdits
  /\ settingsState' = [settingsState EXCEPT
                         !.theme = IF @ = "dark" THEN "light" ELSE "dark"]
  /\ persistDue' = TRUE
  /\ edits' = edits + 1
  /\ lastEvent' = Ev("edit")
  /\ UNCHANGED swipe
  /\ UNCHANGED <<dataVars, migVars, authVars, state, debounced, debouncedSettings,
                 effectDue, pending>>

\* ------------------------------------------- interactions and the dashboard
\* Instants (lastConnection, snoozedUntil, Date.now()) are hours since the
\* epoch; the date of an interaction is a day number ('YYYY-MM-DD').  Local
\* time is taken to be UTC and every day to have HoursPerDay hours.
\* App.tsx:543 -- 1000 * 3600 * 24 milliseconds
HoursPerDay == 24
\* new Date(0).toISOString(), "never connected"
Epoch == 0
\* the day on which the behaviours of the dashboard specification start
Today == 50

\* App.tsx:550-555 and 396: parseLocalDate(interaction.date).toISOString(),
\* the midnight that starts the day
ConnectionDate(d) == d * HoursPerDay

\* date.setHours(0, 0, 0, 0)
StartOfDay(t) == t - (t % HoursPerDay)

\* App.tsx:411 and 416: { ...p, lastConnection: connectionDate, snoozedUntil: undefined }
Logged(rec, connectionDate) ==
  [f \in (DOMAIN rec \cup {"lastConnection"}) \ {"snoozedUntil"} |->
     IF f = "lastConnection" THEN connectionDate ELSE rec[f]]

\* the elements of a list of ids
Range(list) == {list[i] : i \in 1..Len(list)}

\* App.tsx:386-423, handleSaveInteraction: the interaction replaces the one
\* with its id or is appended; every person it names, every member of a group
\* it names and every group it names gets its date as lastConnection
SaveInteraction(id, d, ps, gs) ==
  /\ edits < MaxEdits
  /\ LET peopleIdsInGroups ==
           UNION {Range(state["groups"][g]["memberIds"]) : g \in gs \cap DOMAIN state["groups"]}
         allAffectedPersonIds == ps \cup peopleIdsInGroups
         connectionDate == ConnectionDate(d)
     IN  state' = [state EXCEPT
           !["interactions"] =
              [i \in DOMAIN @ \cup {id} |-> IF i = id THEN InteractionRec(d, ps, gs) ELSE @[i]],
           !["people"] =
              [q \in DOMAIN @ |-> IF q \in allAffectedPersonIds
                                    THEN Logged(@[q], connectionDate) ELSE @[q]],
           !["groups"] =
              [g \in DOMAIN @ |-> IF g \in gs THEN Logged(@[g], connectionDate) ELSE @[g]]]
  /\ persistDue' = TRUE
  /\ edits' = edits + 1
  /\ lastEvent' = Ev("log")
  /\ UNCHANGED swipe
  /\ UNCHANGED <<dataVars, migVars, authVars, settingsState, debounced,
                 debouncedSettings, effectDue, pending>>

\* App.tsx:348-363, handleQuickLog: an interaction with a new id, dated today,
\* that names the one person or group
QuickLog(c, itemId) ==
  /\ itemId \in DOMAIN state[c]
  /\ \E id \in Ids \ DOMAIN state["interactions"] :
       SaveInteraction(id, clock \div HoursPerDay,
                       IF c = "people" THEN {itemId} ELSE {},
                       IF c = "groups" THEN {itemId} ELSE {})

\* App.tsx:336-346, handleSnooze: snoozedUntil is this time tomorrow
Snooze(c, itemId) ==
  /\ edits < MaxEdits
  /\ itemId \in DOMAIN state[c]
  /\ state' = [state EXCEPT ![c][itemId] =
                 [f \in DOMAIN @ \cup {"snoozedUntil"} |->
                    IF f = "snoozedUntil" THEN clock + HoursPerDay ELSE @[f]]]
  /\ persistDue' = TRUE
  /\ edits' = edits + 1
  /\ lastEvent' = Ev("snooze")
  /\ UNCHANGED swipe
  /\ UNCHANGED <<dataVars, migVars, authVars, settingsState, debounced,
                 debouncedSettings, effectDue, pending>>

\* time passes: half a day
Tick ==
  /\ clock + 12 <= Today * HoursPerDay + 9 + 12 * MaxDate
  /\ clock' = clock + 12
  /\ lastEvent' = Ev("tick")
  /\ UNCHANGED swipe
  /\ UNCHANGED <<dataVars, mig, writes, runs, authVars, reactVars, netVars>>

\* a number of days or Infinity
Num(n) == [inf |-> FALSE, n |-> n]
Infinity == [inf |-> TRUE, n |-> 0]

\* mutant: the sentinel is a date like any other
GetDaysSince_NoSentinel(isoDate, now) ==
  Num((StartOfDay(now) - StartOfDay(isoDate)) \div HoursPerDay)

\* App.tsx:537-544, getDaysSince
GetDaysSince(isoDate, now) ==
  IF isoDate = Epoch THEN Infinity
  ELSE Num((StartOfDay(now) - StartOfDay(isoDate)) \div HoursPerDay)

\* App.tsx:546-548, getOverdueAmount: Infinity - n is Infinity
GetOverdueAmount(item, now) ==
  LET days == GetDaysSince(item["lastConnection"], now)
  IN  IF days.inf THEN Infinity ELSE Num(days.n - item["frequency"])

\* the sign of x - y; Infinity - Infinity is NaN, which sort takes for 0
SignOfDifference(x, y) ==
  IF x.inf /\ y.inf THEN 0
  ELSE IF x.inf THEN 1
  ELSE IF y.inf THEN -1
  ELSE IF x.n > y.n THEN 1 ELSE IF x.n < y.n THEN -1 ELSE 0

\* Array.prototype.sort with the comparator of App.tsx:598, a stable sort:
\* compare(a, b) = getOverdueAmount(b) - getOverdueAmount(a)
RECURSIVE InsertByOverdue(_, _, _, _)
InsertByOverdue(x, sorted, st, now) ==
  IF sorted = << >> THEN << x >>
  ELSE LET y == sorted[Len(sorted)]
           compare == SignOfDifference(GetOverdueAmount(st[x[1]][x[2]], now),
                                       GetOverdueAmount(st[y[1]][y[2]], now))
       IN  IF compare > 0
             THEN Append(InsertByOverdue(x, SubSeq(sorted, 1, Len(sorted) - 1), st, now), y)
             ELSE Append(sorted, x)

RECURSIVE SortByOverdue(_, _, _)
SortByOverdue(items, st, now) ==
  IF items = << >> THEN << >>
  ELSE InsertByOverdue(items[Len(items)],
                       SortByOverdue(SubSeq(items, 1, Len(items) - 1), st, now), st, now)

\* the records of an array are in the order in which they were added, which
\* is the order of their ids (ids are Date.now().toString())
IdOrder == <<"1", "2">>
ItemsOf(st, c) ==
  LET ids == SelectSeq(IdOrder, LAMBDA i : i \in DOMAIN st[c])
  IN  [k \in 1..Len(ids) |-> <<c, ids[k]>>]

\* App.tsx:592-597, the filter of dueConnections
ShownOnDashboard(item, now) ==
  /\ ~(Has(item, "isMe") /\ item["isMe"])
  /\ ~(Has(item, "showOnDashboard") /\ item["showOnDashboard"] = FALSE)
  /\ ~(Has(item, "snoozedUntil") /\ item["snoozedUntil"] >= StartOfDay(now))
  /\ LET overdue == GetOverdueAmount(item, now) IN overdue.inf \/ overdue.n >= 0

\* App.tsx:587-599, dueConnections: [...people, ...groups].filter(...).sort(...)
DueConnections(st, now) ==
  LET all == ItemsOf(st, "people") \o ItemsOf(st, "groups")
      kept == SelectSeq(all, LAMBDA x : ShownOnDashboard(st[x[1]][x[2]], now))
  IN  SortByOverdue(kept, st, now)

\* another device of the same user sets or deletes a remote document
RemoteSet(u, c, id, r) ==
  /\ edits < MaxEdits
  /\ remoteCols' = [remoteCols EXCEPT ![u][c] =
                      [i \in DOMAIN @ \cup {id} |-> IF i = id THEN r ELSE @[i]]]
  /\ edits' = edits + 1
  /\ lastEvent' = Ev("remote")
  /\ UNCHANGED swipe
  /\ UNCHANGED <<localCols, localSettings, realtimeInitialized, remoteSettings, migVars,
                 authVars, reactVars, pending>>

RemoteDelete(u, c, id) ==
  /\ edits < MaxEdits
  /\ id \in DOMAIN remoteCols[u][c]
  /\ remoteCols' = [remoteCols EXCEPT ![u][c] = [i \in DOMAIN @ \ {id} |-> @[i]]]
  /\ edits' = edits + 1
  /\ lastEvent' = Ev("remote")
  /\ UNCHANGED swipe
  /\ UNCHANGED <<localCols, localSettings, realtimeInitialized, remoteSettings, migVars,
                 authVars, reactVars, pending>>

\* ----------------------------------------------- specification: reconcile
\* One collection is populated: id "1" with any record on either side, id
\* "2" with a fixed record on either side.
MapsOver(recs1, recs2) ==
  {NoRecords} \cup
  {[i \in {"1"} |-> r] : r \in recs1} \cup
  {[i \in {"2"} |-> r] : r \in recs2} \cup
  {[i \in Ids |-> IF i = "1" THEN r1 ELSE r2] : r1 \in recs1, r2 \in recs2}

\* everything but the stores and the signed-in user, as it is after mounting
QuietInit ==
  /\ clock = MaxTs + 1
  /\ mig = Idle
  /\ writes = {}
  /\ runs = 0
  /\ pulls = << >>
  /\ syncUnsubRef = {}
  /\ subs = {}
  /\ started = 0
  /\ upgradeTimer = FALSE
  /\ reconciled = FALSE
  /\ events = 0
  /\ state = localCols
  /\ settingsState = localSettings
  /\ debounced = state
  /\ debouncedSettings = settingsState
  /\ persistDue = FALSE
  /\ effectDue = FALSE
  /\ pending = << >>
  /\ edits = 0
  /\ lastEvent = Ev("init")
  /\ swipe = RowAtRest(TRUE, TRUE)

InitMerge ==
  /\ \E c \in ColNames, l \in MapsOver(Records, SecondRecords),
        r \in MapsOver(Records, SecondRecords) :
       /\ localCols = [x \in ColNames |-> IF x = c THEN l ELSE NoRecords]
       /\ remoteCols = [u \in Users |->
                          [x \in ColNames |-> IF u = "u1" /\ x = c THEN r ELSE NoRecords]]
  /\ localSettings = DefaultSettings
  /\ realtimeInitialized = Null
  /\ remoteSettings = [u \in Users |-> NoRecords]
  /\ authUser = [uid |-> "u1", anon |-> FALSE]
  /\ QuietInit

NextMerge ==
  \/ UploadLocal
  \/ MigrateFetch
  \/ MigrateCommit
  \/ MigrateSettings

SpecMerge == InitMerge /\ [][NextMerge]_vars

\* ------------------------------------------------------ SwipeableListItem
\* SwipeableListItem.tsx:29
DRAG_THRESHOLD == 10
\* element.offsetWidth, in pixels; a multiple of 5, for which the double
\* itemWidth * 0.4 is the exact product
ItemWidth == 100

\* positions are rationals num/den with den > 0: the resistance of line 73
\* divides
Px(n) == [num |-> n, den |-> 1]
Abs(n) == IF n < 0 THEN 0 - n ELSE n

\* mutant: the threshold itself commits
Exceeds_OrEqual(x, itemWidth) == 5 * x.num >= 2 * itemWidth * x.den

\* SwipeableListItem.tsx:98, 103 and 106: x > itemWidth * 0.4
Exceeds(x, itemWidth) == 5 * x.num > 2 * itemWidth * x.den

Negated(x) == [num |-> 0 - x.num, den |-> x.den]

\* SwipeableListItem.tsx:89: neither a drag nor a scroll
IsClick(s) == ~s.isDragging /\ ~s.isScrolling

\* SwipeableListItem.tsx:59: the pointer has moved vertically by more than
\* the threshold and by more than it has moved horizontally
IsVerticalScroll(deltaX, deltaY) ==
  Abs(deltaY) > DRAG_THRESHOLD /\ Abs(deltaY) > Abs(deltaX)

\* SwipeableListItem.tsx:82-122, handlePointerUp of one pointer-down: its
\* listeners leave window; a click if there was neither drag nor scroll;
\* otherwise the row goes to -width, +width or 0 and the bound action of a
\* committed direction is scheduled
HandlePointerUp(s) ==
  LET removed == [s EXCEPT !.listeners = @ - 1]
  IN  IF IsClick(s)
        THEN [removed EXCEPT !.clicks = @ + 1]
      ELSE IF Exceeds(Negated(s.currentTranslateX), ItemWidth) /\ s.onFullSwipeLeft
        THEN [removed EXCEPT !.transform = Px(0 - ItemWidth),
                             !.timers = Append(@, "left"),
                             !.currentTranslateX = Px(0)]
      ELSE IF Exceeds(s.currentTranslateX, ItemWidth) /\ s.onFullSwipeRight
        THEN [removed EXCEPT !.transform = Px(ItemWidth),
                             !.timers = Append(@, "right"),
                             !.currentTranslateX = Px(0)]
      ELSE [removed EXCEPT !.transform = Px(0), !.currentTranslateX = Px(0)]

\* SwipeableListItem.tsx:51-79, handlePointerMove of one pointer-down
HandlePointerMove(s, deltaX, deltaY) ==
  IF s.isScrolling THEN s
  ELSE IF ~s.isDragging /\ IsVerticalScroll(deltaX, deltaY)
    THEN HandlePointerUp([s EXCEPT !.isScrolling = TRUE])
  ELSE LET dragging == s.isDragging \/ Abs(deltaX) > DRAG_THRESHOLD
           translate ==
             IF (deltaX < 0 /\ ~s.onFullSwipeLeft) \/ (deltaX > 0 /\ ~s.onFullSwipeRight)
               THEN [num |-> deltaX * 100, den |-> 100 + Abs(deltaX)]
               ELSE Px(deltaX)
       IN  IF dragging
             THEN [s EXCEPT !.isDragging = TRUE, !.currentTranslateX = translate,
                            !.transform = translate]
             ELSE s

\* the listeners that window holds run one after the other
RECURSIVE MoveAll(_, _, _, _)
MoveAll(n, s, deltaX, deltaY) ==
  IF n = 0 THEN s ELSE MoveAll(n - 1, HandlePointerMove(s, deltaX, deltaY), deltaX, deltaY)

RECURSIVE UpAll(_, _)
UpAll(n, s) == IF n = 0 THEN s ELSE UpAll(n - 1, HandlePointerUp(s))

\* the pointer positions tried, relative to where the pointer went down
DeltasX == {0 - 41, 0 - 40, 0 - 39, 0 - 11, 0, 10, 39, 40, 41}
DeltasY == {0, 20}

\* SwipeableListItem.tsx:31-49 and 124-126, handlePointerDown: nothing on a
\* disabled row; otherwise the refs are reset and three listeners are added
\* to window, whether or not an earlier pointer-down still has its own there
PointerDown ==
  /\ swipe.gestures < MaxGestures
  /\ swipe.listeners < MaxPointers
  /\ swipe' = IF swipe.isDisabled
               THEN [swipe EXCEPT !.gestures = @ + 1]
               ELSE [swipe EXCEPT !.isDragging = FALSE, !.isScrolling = FALSE,
                                  !.listeners = @ + 1, !.gestures = @ + 1,
                                  !.beyondThreshold = (swipe.listeners > 0 /\ @)]
  /\ lastEvent' = Ev("down")
  /\ UNCHANGED <<dataVars, migVars, authVars, reactVars, netVars>>

\* a pointermove event on window
PointerMove(deltaX, deltaY) ==
  /\ swipe.listeners > 0
  /\ swipe' = [MoveAll(swipe.listeners, swipe, deltaX, deltaY) EXCEPT
                 !.beyondThreshold = @ \/ Abs(deltaX) > DRAG_THRESHOLD]
  /\ lastEvent' = Ev("move")
  /\ UNCHANGED <<dataVars, migVars, authVars, reactVars, netVars>>

\* a pointerup or pointercancel event on window
PointerUp ==
  /\ swipe.listeners > 0
  /\ swipe' = UpAll(swipe.listeners, swipe)
  /\ lastEvent' = Ev("up")
  /\ UNCHANGED <<dataVars, migVars, authVars, reactVars, netVars>>

\* SwipeableListItem.tsx:115-119: 250 ms after a commit, action()
SwipeTimer ==
  /\ swipe.timers # << >>
  /\ swipe' = [swipe EXCEPT !.timers = Tail(@), !.called = Append(@, Head(swipe.timers))]
  /\ lastEvent' = Ev("swiped")
  /\ UNCHANGED <<dataVars, migVars, authVars, reactVars, netVars>>

\* ------------------------------------------------ SettingsModal: import
\* the backup files tried: text that is not JSON, the JSON text null, objects
\* that lack people or circles, and whole backups
BackupFiles ==
  {[parses |-> FALSE, object |-> FALSE, data |-> NoRecords],
   [parses |-> TRUE, object |-> FALSE, data |-> NoRecords]}
  \cup {[parses |-> TRUE, object |-> TRUE, data |-> d] :
          d \in {[k \in {"circles"} |-> "[Imported]"],
                 [k \in {"people"} |-> [i \in {"2"} |-> MkRec("B", "", 1)]],
                 [people |-> NoRecords, circles |-> "[Imported]"],
                 [people |-> [i \in {"2"} |-> MkRec("B", "", 1)], circles |-> "[Imported]",
                  theme |-> "light"]}}

\* SettingsModal.tsx:219-228: JSON.parse succeeds and the basic validation
\* passes
PassesValidation(file) ==
  /\ file.parses
  /\ file.object
  /\ "people" \in DOMAIN file.data
  /\ "circles" \in DOMAIN file.data

\* SettingsModal.tsx:213-254, handleFileChange and the reader's onload: a
\* file that fails to parse or to validate gets an alert; otherwise every key
\* of the object is stored (JSON.stringify of what JSON.parse gave, which
\* reads back as the same value) and the page is reloaded, which ends every
\* call and listener and starts React state from localStorage
ImportBackup(file) ==
  /\ events < MaxEvents
  /\ events' = events + 1
  /\ IF ~PassesValidation(file)
       THEN /\ lastEvent' = Ev("alert")
            /\ UNCHANGED <<dataVars, migVars, authUser, pulls, syncUnsubRef, subs, started,
                           upgradeTimer, reconciled, reactVars, netVars>>
       ELSE /\ localCols' = [c \in ColNames |->
                               IF c \in DOMAIN file.data THEN file.data[c] ELSE localCols[c]]
            /\ localSettings' = [k \in DOMAIN localSettings |->
                                   IF k \in DOMAIN file.data THEN file.data[k]
                                   ELSE localSettings[k]]
            /\ pulls' = IF authUser # NoUser /\ ~authUser.anon
                          THEN << NewPull("auth", authUser.uid) >> ELSE << >>
            /\ mig' = Idle
            /\ subs' = {}
            /\ syncUnsubRef' = {}
            /\ upgradeTimer' = FALSE
            /\ reconciled' = FALSE
            /\ state' = localCols'
            /\ settingsState' = LoadSettings(localSettings')
            /\ debounced' = state'
            /\ debouncedSettings' = settingsState'
            /\ persistDue' = FALSE
            /\ effectDue' = TRUE
            /\ pending' \in {pending, << >>}
            /\ lastEvent' = Ev("reload")
            /\ UNCHANGED <<realtimeInitialized, remoteCols, remoteSettings, writes, runs,
                           clock, authUser, started, edits>>
  /\ UNCHANGED swipe

\* ------------------------------------------ the functions called with a uid
\* mutant: the uid is not looked at
AbsentUid_Never(uid) == FALSE

\* lines 23, 106, 170, 237: if (!uid) return
AbsentUid(uid) == uid = ""

\* a call of one of the four functions that returns at its uid guard
ReturnsAtGuard(fn) ==
  /\ lastEvent' = [Ev("call") EXCEPT !.col = fn]
  /\ UNCHANGED swipe
  /\ UNCHANGED <<dataVars, migVars, authUser, pulls, syncUnsubRef, subs, started,
                 upgradeTimer, reconciled, reactVars, pending, edits>>

\* migrateLocalToCloud(uid), lines 20-23
CallMigrate(uid) ==
  /\ events < MaxEvents
  /\ events' = events + 1
  /\ IF AbsentUid(uid) THEN ReturnsAtGuard("migrateLocalToCloud")
     ELSE /\ MigrateStart(uid, "upload")
          /\ lastEvent' = [Ev("call") EXCEPT !.uid = uid, !.col = "migrateLocalToCloud"]
          /\ UNCHANGED swipe
          /\ UNCHANGED <<dataVars, authUser, pulls, syncUnsubRef, subs, started,
                         upgradeTimer, reconciled, reactVars, netVars>>

\* pullRemoteToLocal(uid), lines 105-110
CallPull(uid) ==
  /\ events < MaxEvents
  /\ events' = events + 1
  /\ IF AbsentUid(uid) THEN ReturnsAtGuard("pullRemoteToLocal")
     ELSE /\ pulls' = Append(pulls, NewPull("modal", uid))
          /\ lastEvent' = [Ev("call") EXCEPT !.uid = uid, !.col = "pullRemoteToLocal"]
          /\ UNCHANGED swipe
          /\ UNCHANGED <<dataVars, migVars, authUser, syncUnsubRef, subs, started,
                         upgradeTimer, reconciled, reactVars, netVars>>

\* startRealtimeSync(uid, handlers), lines 161-224
CallStartRealtimeSync(uid) ==
  /\ events < MaxEvents
  /\ events' = events + 1
  /\ IF AbsentUid(uid) THEN ReturnsAtGuard("startRealtimeSync")
     ELSE /\ subs' = subs \cup {NewSub(uid)}
          /\ started' = started + 1
          /\ lastEvent' = [Ev("call") EXCEPT !.uid = uid, !.col = "startRealtimeSync"]
          /\ UNCHANGED swipe
          /\ UNCHANGED <<dataVars, migVars, authUser, pulls, syncUnsubRef,
                         upgradeTimer, reconciled, reactVars, netVars>>

\* syncStateToCloud(uid, state), lines 228-290, with the React state
CallSyncStateToCloud(uid) ==
  /\ events < MaxEvents
  /\ events' = events + 1
  /\ Len(pending) < MaxPending
  /\ IF AbsentUid(uid) THEN ReturnsAtGuard("syncStateToCloud")
     ELSE /\ pending' = Append(pending,
                               SyncBatch(uid, realtimeInitialized, localCols,
                                         [cols |-> state, settings |-> settingsState]))
          /\ lastEvent' = [Ev("call") EXCEPT !.uid = uid, !.col = "syncStateToCloud"]
          /\ UNCHANGED swipe
          /\ UNCHANGED <<dataVars, migVars, authUser, pulls, syncUnsubRef, subs, started,
                         upgradeTimer, reconciled, reactVars, edits>>

\* ------------------------------------- specification: reconcile with failures
\* As InitMerge, with fewer records: the first or the third collection is
\* populated.
FailRecords == {MkRec("A", "", 1), MkRec("B", "", MaxTs)}
InitFail ==
  /\ \E c \in {"people", "interactions"}, l \in MapsOver(FailRecords, SecondRecords),
        r \in MapsOver(FailRecords, SecondRecords) :
       /\ localCols = [x \in ColNames |-> IF x = c THEN l ELSE NoRecords]
       /\ remoteCols = [u \in Users |->
                          [x \in ColNames |-> IF u = "u1" /\ x = c THEN r ELSE NoRecords]]
  /\ localSettings = DefaultSettings
  /\ realtimeInitialized = Null
  /\ remoteSettings = [u \in Users |-> NoRecords]
  /\ authUser = [uid |-> "u1", anon |-> FALSE]
  /\ QuietInit

NextFail ==
  \/ UploadLocal
  \/ ManualSync
  \/ MigrateFetch
  \/ MigrateFetchFail
  \/ MigrateCommit
  \/ MigrateSettings
  \/ \E i \in 1..Len(pulls) : PullFetch(i)
  \/ \E i \in 1..Len(pulls) : PullReturn(i)

SpecFail == InitFail /\ [][NextFail]_vars

\* ------------------------------- specification: the four functions, any uid
\* u1 is signed in; people differ between localStorage and the remote store.
InitCalls ==
  /\ \E l \in {NoRecords, [i \in {"1"} |-> MkRec("A", "", 1)]},
        r \in {[i \in {"2"} |-> MkRec("B", "", 1)], [i \in {"1"} |-> MkRec("B", "", MaxTs)]} :
       /\ localCols = [x \in ColNames |-> IF x = "people" THEN l ELSE NoRecords]
       /\ remoteCols = [u \in Users |->
                          [x \in ColNames |-> IF u = "u1" /\ x = "people" THEN r
                                              ELSE NoRecords]]
  /\ localSettings = DefaultSettings
  /\ realtimeInitialized = Null
  /\ remoteSettings = [u \in Users |-> NoRecords]
  /\ authUser = [uid |-> "u1", anon |-> FALSE]
  /\ QuietInit

NextCalls ==
  \/ \E uid \in {"", "u1"} : CallMigrate(uid)
  \/ \E uid \in {"", "u1"} : CallPull(uid)
  \/ \E uid \in {"", "u1"} : CallStartRealtimeSync(uid)
  \/ \E uid \in {"", "u1"} : CallSyncStateToCloud(uid)
  \/ MigrateFetch
  \/ MigrateCommit
  \/ MigrateSettings
  \/ \E i \in 1..Len(pulls) : PullFetch(i)
  \/ \E i \in 1..Len(pulls) : PullReload(i)
  \/ CommitNext
  \/ \E s \in subs : Notify(s, "people")

SpecCalls == InitCalls /\ [][NextCalls]_vars

\* --------------------------------------- specification: deleting a person

\* u1 is signed in; two people, one or two groups and a support request, in
\* localStorage and in React state; nothing remote yet.
InitCascade ==
  /\ \E m1 \in IdLists, m2 \in {<< >>, <<"2", "1">>}, h \in IdLists, two \in BOOLEAN :
       localCols =
         [x \in ColNames |->
            IF x = "people" THEN [i \in Ids |-> PersonRec(0)]
            ELSE IF x = "groups"
              THEN IF two THEN [i \in Ids |-> GroupRec(IF i = "1" THEN m1 ELSE m2)]
                   ELSE [i \in {"1"} |-> GroupRec(m1)]
            ELSE IF x = "supportRequests" THEN [i \in {"1"} |-> SupportRec(h)]
            ELSE NoRecords]
  /\ remoteCols = [u \in Users |-> [x \in ColNames |-> NoRecords]]
  /\ localSettings = DefaultSettings
  /\ realtimeInitialized = Null
  /\ remoteSettings = [u \in Users |-> NoRecords]
  /\ authUser = [uid |-> "u1", anon |-> FALSE]
  /\ QuietInit

NextCascade ==
  \/ \E id \in Ids : DeleteRecord("people", id)
  \/ \E id \in Ids : DeleteRecord("groups", id)
  \/ PersistEffect
  \/ CommitNext

SpecCascade == InitCascade /\ [][NextCascade]_vars

\* ----------------------------------------- specification: the dashboard
\* a person or group of the dashboard
DashRec(lc, extra) ==
  [f \in {"name", "lastConnection", "frequency"} \cup DOMAIN extra |->
     IF f = "name" THEN "A" ELSE IF f = "lastConnection" THEN lc
     ELSE IF f = "frequency" THEN 30 ELSE extra[f]]
\* never connected, 45 days ago (at 5 o'clock), 10 days ago
LastConnections ==
  {Epoch, (Today - 45) * HoursPerDay + 5, (Today - 10) * HoursPerDay}
PersonExtras ==
  {NoRecords, [f \in {"isMe"} |-> TRUE], [f \in {"showOnDashboard"} |-> FALSE],
   [f \in {"showOnDashboard"} |-> TRUE]}
\* the days an interaction is dated: 46 days ago, yesterday
LogDays == {Today - 46, Today - 1}

\* A guest uses the app: two people, the second last connected 45 days ago,
\* and a never-connected group of which the first person is a member, in
\* localStorage and in React state; no interaction yet; it is 9 o'clock.
InitLog ==
  /\ \E lc1 \in LastConnections, x1 \in PersonExtras :
       localCols =
         [x \in ColNames |->
            IF x = "people"
              THEN [i \in Ids |-> IF i = "1" THEN DashRec(lc1, x1)
                                  ELSE DashRec((Today - 45) * HoursPerDay + 5, NoRecords)]
            ELSE IF x = "groups"
              THEN [i \in {"1"} |-> DashRec(Epoch, [f \in {"memberIds"} |-> <<"1">>])]
            ELSE NoRecords]
  /\ remoteCols = [u \in Users |-> [x \in ColNames |-> NoRecords]]
  /\ localSettings = DefaultSettings
  /\ realtimeInitialized = Null
  /\ remoteSettings = [u \in Users |-> NoRecords]
  /\ authUser = [uid |-> "u1", anon |-> TRUE]
  /\ clock = Today * HoursPerDay + 9
  /\ mig = Idle
  /\ writes = {}
  /\ runs = 0
  /\ pulls = << >>
  /\ syncUnsubRef = {}
  /\ subs = {}
  /\ started = 0
  /\ upgradeTimer = FALSE
  /\ reconciled = FALSE
  /\ events = 0
  /\ state = localCols
  /\ settingsState = localSettings
  /\ debounced = state
  /\ debouncedSettings = settingsState
  /\ persistDue = FALSE
  /\ effectDue = FALSE
  /\ pending = << >>
  /\ edits = 0
  /\ lastEvent = Ev("init")
  /\ swipe = RowAtRest(TRUE, TRUE)

NextLog ==
  \/ \E d \in LogDays, ps \in {{}, {"1"}}, gs \in SUBSET {"1"} :
       SaveInteraction("1", d, ps, gs)
  \/ \E c \in {"people", "groups"}, id \in Ids : QuickLog(c, id)
  \/ \E c \in {"people", "groups"}, id \in Ids : Snooze(c, id)
  \/ Tick
  \/ PersistEffect

SpecLog == InitLog /\ [][NextLog]_vars

\* ------------------------------------------- specification: pull
\* remote people and groups: new Date(0) (never connected) or a date
PullEntities(ids) ==
  {NoRecords} \cup
  {[i \in S |-> PersonRec(lc)] : S \in (SUBSET ids) \ {{}}, lc \in 0..MaxDate}
\* remote interactions: none, one, or two of which the second references
\* person "1" and group "1"
PullInteractions ==
  {NoRecords} \cup
  {[i \in {"1"} |-> InteractionRec(d, ps, gs)] :
     d \in Dates, ps \in SUBSET Ids, gs \in SUBSET {"1"}} \cup
  {[i \in Ids |-> IF i = "1" THEN InteractionRec(d, ps, gs)
                  ELSE InteractionRec(d2, {"1"}, {"1"})] :
     d \in Dates, ps \in SUBSET Ids, gs \in SUBSET {"1"}, d2 \in Dates}

\* u1 is signed in; the remote store holds people, groups and interactions;
\* localStorage holds nothing or a person the remote store may not have.
InitPull ==
  /\ \E rp \in PullEntities(Ids), rg \in PullEntities({"1"}), ri \in PullInteractions,
        lp \in {NoRecords, [i \in {"2"} |-> PersonRec(MaxDate)]} :
       /\ localCols = [x \in ColNames |-> IF x = "people" THEN lp ELSE NoRecords]
       /\ remoteCols = [u \in Users |->
                          [x \in ColNames |->
                             IF u # "u1" THEN NoRecords
                             ELSE IF x = "people" THEN rp
                             ELSE IF x = "groups" THEN rg
                             ELSE IF x = "interactions" THEN ri ELSE NoRecords]]
  /\ localSettings = DefaultSettings
  /\ realtimeInitialized = Null
  /\ remoteSettings = [u \in Users |-> NoRecords]
  /\ authUser = [uid |-> "u1", anon |-> FALSE]
  /\ QuietInit

NextPull ==
  \/ PullRemote
  \/ \E i \in 1..Len(pulls) : PullFetch(i)
  \/ \E i \in 1..Len(pulls) : PullReload(i)
  \/ \E i \in 1..Len(pulls) : PullReturn(i)

SpecPull == InitPull /\ [][NextPull]_vars

\* ------------------------------------------ specification: a swipeable row
InitSwipe ==
  /\ localCols = [c \in ColNames |-> NoRecords]
  /\ remoteCols = [u \in Users |-> [c \in ColNames |-> NoRecords]]
  /\ localSettings = DefaultSettings
  /\ realtimeInitialized = Null
  /\ remoteSettings = [u \in Users |-> NoRecords]
  /\ authUser = NoUser
  /\ clock = MaxTs + 1
  /\ mig = Idle
  /\ writes = {}
  /\ runs = 0
  /\ pulls = << >>
  /\ syncUnsubRef = {}
  /\ subs = {}
  /\ started = 0
  /\ upgradeTimer = FALSE
  /\ reconciled = FALSE
  /\ events = 0
  /\ state = localCols
  /\ settingsState = localSettings
  /\ debounced = state
  /\ debouncedSettings = settingsState
  /\ persistDue = FALSE
  /\ effectDue = FALSE
  /\ pending = << >>
  /\ edits = 0
  /\ lastEvent = Ev("init")
  /\ \E left, right, disabled \in BOOLEAN :
       swipe = [RowAtRest(left, right) EXCEPT !.isDisabled = disabled]

NextSwipe ==
  \/ PointerDown
  \/ \E deltaX \in DeltasX, deltaY \in DeltasY : PointerMove(deltaX, deltaY)
  \/ PointerUp
  \/ SwipeTimer

SpecSwipe == InitSwipe /\ [][NextSwipe]_vars

\* ------------------------- specification: backup import and malformed storage
\* the app is mounted and circleup_people has since come to hold either what
\* React state holds or text that is not JSON
InitImport ==
  /\ \E l \in {Malformed, [i \in {"1"} |-> MkRec("A", "", 1)]},
        r \in {NoRecords, [i \in {"1"} |-> MkRec("A", "", 1)],
               [i \in {"2"} |-> MkRec("B", "", 1)]} :
       /\ localCols = [x \in ColNames |-> IF x = "people" THEN l ELSE NoRecords]
       /\ remoteCols = [u \in Users |->
                          [x \in ColNames |-> IF u = "u1" /\ x = "people" THEN r
                                              ELSE NoRecords]]
  /\ localSettings = DefaultSettings
  /\ realtimeInitialized = Null
  /\ remoteSettings = [u \in Users |-> NoRecords]
  /\ authUser = [uid |-> "u1", anon |-> FALSE]
  /\ clock = MaxTs + 1
  /\ mig = Idle
  /\ writes = {}
  /\ runs = 0
  /\ pulls = << >>
  /\ syncUnsubRef = {}
  /\ subs = {}
  /\ started = 0
  /\ upgradeTimer = FALSE
  /\ reconciled = FALSE
  /\ events = 0
  /\ state = [x \in ColNames |->
                IF x = "people" THEN [i \in {"1"} |-> MkRec("A", "", 1)] ELSE NoRecords]
  /\ settingsState = localSettings
  /\ debounced = state
  /\ debouncedSettings = settingsState
  /\ persistDue = FALSE
  /\ effectDue = FALSE
  /\ pending = << >>
  /\ edits = 0
  /\ lastEvent = Ev("init")
  /\ swipe = RowAtRest(TRUE, TRUE)

NextImport ==
  \/ \E file \in BackupFiles : ImportBackup(file)
  \/ UploadLocal
  \/ MigrateFetch
  \/ MigrateCommit
  \/ MigrateSettings

SpecImport == InitImport /\ [][NextImport]_vars

\* ---------------------------------- specification: explicit deletes, with fairness
\* a signed-in, non-anonymous user whose listeners are subscribed and whose
\* React state, localStorage and remote collections hold the same records
InitDelete ==
  /\ \E flag \in {Null, "1"}, two \in BOOLEAN :
       /\ realtimeInitialized = flag
       /\ localCols = [x \in ColNames |->
                         IF x = "people" THEN [i \in Ids |-> MkRec("A", "", 1)]
                         ELSE IF x = "groups"
                           THEN [i \in (IF two THEN Ids ELSE {"1"}) |-> MkRec("A", "", 1)]
                         ELSE NoRecords]
  /\ remoteCols = [u \in Users |-> IF u = "u1" THEN localCols
                                   ELSE [x \in ColNames |-> NoRecords]]
  /\ localSettings = DefaultSettings
  /\ remoteSettings = [u \in Users |-> NoRecords]
  /\ authUser = [uid |-> "u1", anon |-> FALSE]
  /\ clock = MaxTs + 1
  /\ mig = Idle
  /\ writes = {}
  /\ runs = 0
  /\ pulls = << >>
  /\ syncUnsubRef = {1}
  /\ subs = {[sid |-> 1, uid |-> "u1", afterMerge |-> FALSE]}
  /\ started = 1
  /\ upgradeTimer = FALSE
  /\ reconciled = FALSE
  /\ events = 0
  /\ state = localCols
  /\ settingsState = localSettings
  /\ debounced = state
  /\ debouncedSettings = settingsState
  /\ persistDue = FALSE
  /\ effectDue = FALSE
  /\ pending = << >>
  /\ edits = 0
  /\ lastEvent = Ev("init")
  /\ swipe = RowAtRest(TRUE, TRUE)

NextDelete ==
  \/ \E c \in EditCols, id \in Ids : DeleteRecord(c, id)
  \/ PersistEffect
  \/ \E c \in EditCols : DebounceFire(c)
  \/ CommitNext
  \/ \E s \in subs, c \in EditCols : Notify(s, c)

\* effects run after the render that scheduled them, the debounce timers
\* fire, the server acknowledges the writes of a connected client and the
\* listeners are called
FairDelete ==
  /\ WF_vars(PersistEffect)
  /\ \A c \in EditCols : WF_vars(DebounceFire(c))
  /\ WF_vars(CommitNext)
  /\ \A c \in EditCols : WF_vars(\E s \in subs : Notify(s, c))

SpecDelete == InitDelete /\ [][NextDelete]_vars /\ FairDelete

\* ----------------------------------------- specification: whom to ask next
\* mutant: the asks of every support request are counted
AsksOf_AnyRequest(history, requestId) == history

\* App.tsx:814-815: askHistory.filter(h => h.supportRequestId === supportRequest.id)
AsksOf(history, requestId) ==
  SelectSeq(history, LAMBDA h : h.supportRequestId = requestId)

\* App.tsx:811-821, lastAskedTimestamps: 0 for every helper of the request,
\* then each ask in turn raises the entry of its helper.  The date of an ask
\* is new Date().toISOString(), which new Date(h.date).getTime() reads back
\* as the same instant; instants are counted in hours
RECURSIVE LastAskedTimestamps(_, _)
LastAskedTimestamps(helperIds, asks) ==
  IF asks = << >> THEN [id \in Range(helperIds) |-> 0]
  ELSE LET before == LastAskedTimestamps(helperIds, SubSeq(asks, 1, Len(asks) - 1))
           h == asks[Len(asks)]
           askDate == h.date
           known == IF h.helperId \in DOMAIN before THEN before[h.helperId] ELSE 0
       IN  IF askDate > known
             THEN [id \in DOMAIN before \cup {h.helperId} |->
                     IF id = h.helperId THEN askDate ELSE before[id]]
             ELSE before

\* Array.prototype.sort with the comparator of App.tsx:823-827, a stable
\* sort: compare(a, b) = timeA - timeB
RECURSIVE InsertByLastAsked(_, _, _)
InsertByLastAsked(x, sorted, timestamps) ==
  IF sorted = << >> THEN << x >>
  ELSE LET y == sorted[Len(sorted)]
       IN  IF timestamps[y] - timestamps[x] > 0
             THEN Append(InsertByLastAsked(x, SubSeq(sorted, 1, Len(sorted) - 1),
                                           timestamps), y)
             ELSE Append(sorted, x)

RECURSIVE SortByLastAsked(_, _)
SortByLastAsked(helperIds, timestamps) ==
  IF helperIds = << >> THEN << >>
  ELSE InsertByLastAsked(helperIds[Len(helperIds)],
                         SortByLastAsked(SubSeq(helperIds, 1, Len(helperIds) - 1),
                                         timestamps),
                         timestamps)

\* App.tsx:808-830, getNextToAsk
GetNextToAsk(supportRequest, history) ==
  IF Len(supportRequest.helperIds) = 0 THEN Null
  ELSE LET lastAskedTimestamps ==
             LastAskedTimestamps(supportRequest.helperIds,
                                 AsksOf(history, supportRequest.id))
       IN  SortByLastAsked(supportRequest.helperIds, lastAskedTimestamps)[1]

\* App.tsx:1805-1823 and 486-494: the Log Ask button of a support request
\* calls handleLogAsk with the helper that getNextToAsk names, and nothing
\* when it names none; the entry, dated now, is appended to askHistory
LogAsk(requestId) ==
  /\ Len(state["askHistory"]) < MaxAsks
  /\ requestId \in DOMAIN state["supportRequests"]
  /\ LET nextToAskId == GetNextToAsk(state["supportRequests"][requestId],
                                     state["askHistory"])
     IN  /\ nextToAskId # Null
         /\ state' = [state EXCEPT !["askHistory"] =
                        Append(@, [supportRequestId |-> requestId,
                                   helperId |-> nextToAskId, date |-> clock])]
  /\ persistDue' = TRUE
  /\ lastEvent' = [Ev("ask") EXCEPT !.col = requestId]
  /\ UNCHANGED swipe
  /\ UNCHANGED <<dataVars, migVars, authVars, settingsState, debounced,
                 debouncedSettings, effectDue, netVars>>

\* App.tsx:470-477, handleSaveSupportRequest, from the edit form: the request
\* is replaced by one with the helpers chosen
SaveSupportRequest(requestId, helperIds) ==
  /\ edits < MaxEdits
  /\ requestId \in DOMAIN state["supportRequests"]
  /\ state' = [state EXCEPT !["supportRequests"][requestId].helperIds = helperIds]
  /\ persistDue' = TRUE
  /\ edits' = edits + 1
  /\ lastEvent' = Ev("save")
  /\ UNCHANGED swipe
  /\ UNCHANGED <<dataVars, migVars, authVars, settingsState, debounced,
                 debouncedSettings, effectDue, pending>>

\* the helper lists tried
HelperLists ==
  {<< >>, <<"p1">>, <<"p1", "p2">>, <<"p2", "p1">>, <<"p1", "p2", "p3">>}

\* A guest has two support requests, the second with two helpers, and has
\* not asked anybody yet; it is 9 o'clock.
InitAsk ==
  /\ \E h1 \in HelperLists :
       localCols =
         [x \in ColNames |->
            IF x = "supportRequests"
              THEN [i \in Ids |-> [id |-> i, name |-> "A",
                                   helperIds |-> IF i = "1" THEN h1 ELSE <<"p2", "p1">>]]
            ELSE IF x = "askHistory" THEN << >>
            ELSE NoRecords]
  /\ remoteCols = [u \in Users |-> [x \in ColNames |-> NoRecords]]
  /\ localSettings = DefaultSettings
  /\ realtimeInitialized = Null
  /\ remoteSettings = [u \in Users |-> NoRecords]
  /\ authUser = [uid |-> "u1", anon |-> TRUE]
  /\ clock = Today * HoursPerDay + 9
  /\ mig = Idle
  /\ writes = {}
  /\ runs = 0
  /\ pulls = << >>
  /\ syncUnsubRef = {}
  /\ subs = {}
  /\ started = 0
  /\ upgradeTimer = FALSE
  /\ reconciled = FALSE
  /\ events = 0
  /\ state = localCols
  /\ settingsState = localSettings
  /\ debounced = state
  /\ debouncedSettings = settingsState
  /\ persistDue = FALSE
  /\ effectDue = FALSE
  /\ pending = << >>
  /\ edits = 0
  /\ lastEvent = Ev("init")
  /\ swipe = RowAtRest(TRUE, TRUE)

NextAsk ==
  \/ \E requestId \in Ids : LogAsk(requestId)
  \/ \E requestId \in Ids, helperIds \in HelperLists :
       SaveSupportRequest(requestId, helperIds)
  \/ Tick

SpecAsk == InitAsk /\ [][NextAsk]_vars

\* ------------------------------------ specification: reconcile of the settings
\* the settings document another device stored; localStorage keeps no
\* updatedAt for the settings
RemoteSettingsDocs ==
  {NoRecords}
  \cup {[circles |-> "[Remote]", connectionTypes |-> "[Remote]", reminderLookahead |-> "14",
         theme |-> th, updatedAt |-> ts] : th \in {"light", "dark"}, ts \in 1..MaxTs}

InitSettings ==
  /\ \E ls \in {DefaultSettings, [DefaultSettings EXCEPT !.theme = "light"],
                [DefaultSettings EXCEPT !.circles = Null]},
        rs \in RemoteSettingsDocs :
       /\ localSettings = ls
       /\ remoteSettings = [u \in Users |-> IF u = "u1" THEN rs ELSE NoRecords]
  /\ localCols = [c \in ColNames |-> NoRecords]
  /\ remoteCols = [u \in Users |-> [c \in ColNames |-> NoRecords]]
  /\ realtimeInitialized = Null
  /\ authUser = [uid |-> "u1", anon |-> FALSE]
  /\ QuietInit

SpecSettings == InitSettings /\ [][NextMerge]_vars

\* ------------------------------------------ specification: auth lifecycle
\* Nobody is signed in and every store is empty.
InitAuth ==
  /\ localCols = [c \in ColNames |-> NoRecords]
  /\ remoteCols = [u \in Users |-> [c \in ColNames |-> NoRecords]]
  /\ localSettings = DefaultSettings
  /\ realtimeInitialized = Null
  /\ remoteSettings = [u \in Users |-> NoRecords]
  /\ authUser = NoUser
  /\ QuietInit

NextAuth ==
  \/ \E u \in Users, anon \in BOOLEAN : SignIn(u, anon)
  \/ SignOut
  \/ AuthReplay
  \/ ManualSync
  \/ UpgradeAccount
  \/ UpgradeTimerFire
  \/ MigrateFetch
  \/ MigrateCommit
  \/ MigrateSettings
  \/ \E i \in 1..Len(pulls) : PullFetch(i)
  \/ \E i \in 1..Len(pulls) : PullReturn(i)
  \/ \E s \in subs, c \in ColNames : Notify(s, c)
  \/ EffectOnUser

SpecAuth == InitAuth /\ [][NextAuth]_vars

\* --------------------------------------- specification: write-through sync
\* u1 is signed in and its listeners are subscribed; React state was loaded
\* from localStorage; the realtime flag may be left from an earlier session.
InitSync ==
  /\ \E l \in {NoRecords, [i \in {"1"} |-> MkRec("A", "", -1)]},
        g \in {NoRecords},
        r \in {NoRecords, [i \in {"1"} |-> MkRec("A", "", -1)],
               [i \in Ids |-> MkRec("A", "", -1)]} :
       /\ localCols = [x \in ColNames |-> IF x = "people" THEN l
                                          ELSE IF x = "groups" THEN g ELSE NoRecords]
       /\ remoteCols = [u \in Users |->
                          [x \in ColNames |-> IF u = "u1" /\ x = "people" THEN r
                                              ELSE NoRecords]]
  /\ localSettings = DefaultSettings
  /\ realtimeInitialized \in {Null, "1"}
  /\ remoteSettings = [u \in Users |-> NoRecords]
  /\ authUser = [uid |-> "u1", anon |-> FALSE]
  /\ clock = MaxTs + 1
  /\ mig = Idle
  /\ writes = {}
  /\ runs = 0
  /\ pulls = << >>
  /\ syncUnsubRef = {1}
  /\ subs = {[sid |-> 1, uid |-> "u1", afterMerge |-> FALSE]}
  /\ started = 1
  /\ upgradeTimer = FALSE
  /\ reconciled = FALSE
  /\ events = 0
  /\ state = localCols
  /\ settingsState = localSettings
  /\ debounced = state
  /\ debouncedSettings = settingsState
  /\ persistDue = FALSE
  /\ effectDue = FALSE
  /\ pending = << >>
  /\ edits = 0
  /\ lastEvent = Ev("init")
  /\ swipe = RowAtRest(TRUE, TRUE)

NextSync ==
  \/ \E c \in EditCols, id \in Ids, r \in UserRecords : SaveRecord(c, id, r)
  \/ \E c \in EditCols, id \in Ids : DeleteRecord(c, id)
  \/ ToggleDarkMode
  \/ \E id \in Ids : RemoteSet("u1", "people", id, MkRec("B", "", 1))
  \/ \E id \in Ids : RemoteDelete("u1", "people", id)
  \/ PersistEffect
  \/ \E c \in ColNames : DebounceFire(c)
  \/ DebounceSettingsFire
  \/ CommitNext
  \/ \E s \in subs, c \in EditCols : Notify(s, c)
  \/ \E s \in subs : NotifySettings(s)

SpecSync == InitSync /\ [][NextSync]_vars

\* ------------------------------------------------------------------ claims
\* a migrateLocalToCloud call has completed and none is in progress
Reconciled == runs >= 1 /\ mig.pc = "idle"
\* the collection the call in progress is working on
CurCol == Collections[mig.idx]

\* C1 -- idempotent reconciliation: a migrateLocalToCloud call that follows
\* a completed one, with no mutation in between, issues no remote write at
\* all (collections and settings document).
C1_SecondRunWritesNothing ==
  (runs >= 1 /\ mig.pc # "idle") => writes = {}

\* C2 -- timestamp-wins, ties to local: for an id present locally with
\* updatedAt = t1 and remotely with updatedAt = t2 (t1, t2 >= 0), the merged
\* record is the local one when t1 >= t2 and the remote one when t1 < t2.
C2_TimestampWins ==
  mig.pc = "commit" =>
    \A id \in DOMAIN mig.local[CurCol] \cap DOMAIN mig.remoteMap :
      LET A == mig.local[CurCol][id]
          B == mig.remoteMap[id]
      IN  (Has(A, "updatedAt") /\ Has(B, "updatedAt")) =>
            mig.merged[id] = (IF A["updatedAt"] >= B["updatedAt"] THEN A ELSE B)

\* C3 -- convergence: once migrateLocalToCloud has completed, every local
\* collection holds the same records, with the same field values, as the
\* remote collection.
C3_Converged ==
  Reconciled => \A c \in ColNames : localCols[c] = remoteCols[mig.uid][c]

\* C4 -- union with no record loss: once migrateLocalToCloud has completed,
\* the ids of every local and of every remote collection are the union of
\* the local and the remote ids from before the call.
C4_UnionNoLoss ==
  Reconciled =>
    \A c \in ColNames :
      LET before == DOMAIN mig.local[c] \cup DOMAIN mig.remote0[c]
      IN  /\ DOMAIN localCols[c] = before
          /\ DOMAIN remoteCols[mig.uid][c] = before

\* C4 witness: a record that was only local is now remote and a record that
\* was only remote is now local.
C4_Witness ==
  /\ Reconciled
  /\ \E c \in ColNames :
       /\ DOMAIN mig.local[c] = {"1"}
       /\ DOMAIN mig.remote0[c] = {"2"}
       /\ DOMAIN localCols[c] = Ids
       /\ DOMAIN remoteCols[mig.uid][c] = Ids

C6_EchoSuppressed ==
  [][(lastEvent'.kind = "notify" /\ lastEvent'.pending) =>
       /\ UNCHANGED <<localCols, localSettings, realtimeInitialized>>
       /\ ~lastEvent'.called]_vars

\* C6 witness: an echo was delivered whose documents differ from the local
\* copy of the collection, while the flag is still unset.
C6_Witness ==
  /\ lastEvent.kind = "notify" /\ lastEvent.pending
  /\ lastEvent.col \in ColNames
  /\ SnapshotItems(lastEvent.uid, lastEvent.col) # localCols[lastEvent.col]
  /\ realtimeInitialized = Null

\* C7 -- no cross-user subscriptions: every subscribed listener set belongs
\* to the signed-in user, none is subscribed when nobody is signed in, and a
\* snapshot is applied to the local store only for the signed-in user.
C7_NoCrossUserSubs ==
  /\ \A s \in subs : authUser # NoUser /\ s.uid = authUser.uid
  /\ (lastEvent.kind = "notify" /\ lastEvent.called) => lastEvent.uid = authUser.uid

\* C8 -- reconciliation precedes realtime: every listener set was started
\* after a migrateLocalToCloud of that session completed, and no snapshot is
\* applied to the local store while a migrateLocalToCloud call is in progress.
C8_ReconcileBeforeRealtime ==
  /\ \A s \in subs : s.afterMerge
  /\ (lastEvent.kind = "notify" /\ lastEvent.called) => mig.pc = "idle"

\* C9 -- delete gating: a batch of syncStateToCloud holds a delete only when
\* the realtime-initialized flag is '1'; with the flag absent it holds
\* upserts only.
C9_DeleteGating ==
  [][(lastEvent'.kind = "effect" /\ lastEvent'.called) =>
       (realtimeInitialized = "1" \/ pending'[Len(pending')].deletes = {})]_vars

\* C9 witness: syncStateToCloud ran with the flag absent while localStorage
\* held an id that the synced state did not, and its batch has no delete.
C9_Witness ==
  /\ lastEvent.kind = "effect" /\ lastEvent.called
  /\ realtimeInitialized = Null
  /\ pending # << >> /\ pending[Len(pending)].deletes = {}
  /\ \E c \in ColNames : DOMAIN localCols[c] \ DOMAIN debounced[c] # {}

\* C10 -- empty-state guard: when the six debounced collections are all
\* empty the write-through effect issues no remote write and no remote delete.
C10_EmptyStateGuard ==
  [][(lastEvent'.kind = "effect" /\ \A c \in ColNames : DOMAIN debounced'[c] = {}) =>
       UNCHANGED <<pending, remoteCols, remoteSettings>>]_vars

\* C10 witness: the effect ran for a signed-in user with every debounced
\* collection empty, the flag set and a record still in localStorage.
C10_Witness ==
  /\ lastEvent.kind = "effect" /\ ~lastEvent.called
  /\ authUser # NoUser /\ ~authUser.anon
  /\ \A c \in ColNames : DOMAIN debounced[c] = {}
  /\ realtimeInitialized = "1"
  /\ \E c \in ColNames : localCols[c] # NoRecords

\* C11 -- pullRemoteToLocal postcondition: when the call completes, and no
\* other pull is running, every local collection has exactly the remote ids;
\* every record equals the remote one, except that a person or group
\* referenced by an interaction has lastConnection equal to the greatest date
\* of the interactions referencing it.
PulledFrom(remote) ==
  \A c \in ColNames :
    /\ DOMAIN localCols[c] = DOMAIN remote[c]
    /\ \A id \in DOMAIN remote[c] :
         LET refField == IF c = "people" THEN "personIds" ELSE "groupIds"
             refs == IF c \in {"people", "groups"}
                       THEN {i \in DOMAIN remote["interactions"] :
                               id \in remote["interactions"][i][refField]}
                       ELSE {}
             mine == localCols[c][id]
             theirs == remote[c][id]
         IN  IF refs = {} THEN mine = theirs
             ELSE /\ DOMAIN mine = DOMAIN theirs
                  /\ \A f \in DOMAIN theirs \ {"lastConnection"} : mine[f] = theirs[f]
                  /\ \E i \in refs : mine["lastConnection"] = remote["interactions"][i]["date"]
                  /\ \A i \in refs : remote["interactions"][i]["date"] <= mine["lastConnection"]

C11_PullPostcondition ==
  [][(Len(pulls) = 1 /\ (PullReturn(1) \/ PullReload(1)))
        => PulledFrom(remoteCols[pulls[1].uid])]_vars

\* C11 witness: a pull has completed after which a person referenced by two
\* interactions of different dates holds the later date in place of the
\* lastConnection stored remotely, and a local-only person is gone.
C11_Witness ==
  /\ lastEvent.kind = "reload"
  /\ LET r == remoteCols["u1"]
     IN  /\ DOMAIN r["interactions"] = Ids
         /\ r["interactions"]["1"]["date"] # r["interactions"]["2"]["date"]
         /\ "1" \in r["interactions"]["1"]["personIds"]
         /\ r["interactions"]["1"]["date"] = 1
         /\ DOMAIN r["people"] = {"1"}
         /\ r["people"]["1"]["lastConnection"] = 0
         /\ localCols["people"]["1"]["lastConnection"] = MaxDate
         /\ "2" \notin DOMAIN localCols["people"]

\* C12 -- reconcile failure semantics: the step at which the fetch of the k-th
\* collection fails changes no local key and no remote document; the call has
\* issued writes only for the collections before k (none for k, the later
\* ones or the settings document), and those collections hold the union of
\* the ids on both sides, a local-only record with its fields; the caller does
\* not go on (no pull is started, no upgrade timer is set).
C12_FailureSemantics ==
  [][(mig.pc = "fetch" /\ mig'.pc = "failed") =>
       /\ UNCHANGED <<dataVars, pulls, upgradeTimer, writes>>
       /\ \A w \in writes :
            \E j \in 1..Len(Collections) : j < mig.idx /\ w[1] = Collections[j]
       /\ \A j \in 1..Len(Collections) :
            LET c == Collections[j]
                union == DOMAIN mig.local[c] \cup DOMAIN mig.remote0[c]
            IN  j < mig.idx =>
                  /\ DOMAIN localCols[c] = union
                  /\ DOMAIN remoteCols[mig.uid][c] = union
                  /\ \A id \in union \ DOMAIN mig.remote0[c] :
                       \A f \in DOMAIN mig.local[c][id] \ {"updatedAt"} :
                         /\ localCols[c][id][f] = mig.local[c][id][f]
                         /\ remoteCols[mig.uid][c][id][f] = mig.local[c][id][f]]_vars

\* C12 witness: the call failed at a collection after the populated one, whose
\* local-only record had been committed, or at the populated one itself, whose
\* two sides still differ.
C12_Witness ==
  /\ mig.pc = "failed" /\ lastEvent.kind = "failed"
  /\ \/ \E j \in 1..Len(Collections) :
          /\ j < mig.idx
          /\ DOMAIN mig.local[Collections[j]] = {"1"}
          /\ DOMAIN mig.remote0[Collections[j]] = {"2"}
          /\ <<Collections[j], "1">> \in writes
     \/ /\ mig.idx = 3
        /\ mig.local[Collections[3]] # NoRecords
        /\ mig.remote0[Collections[3]] # mig.local[Collections[3]]

\* C13 -- absent user id: a call of migrateLocalToCloud, pullRemoteToLocal,
\* startRealtimeSync or syncStateToCloud with an empty uid starts no remote
\* read, write or delete, subscribes no listener and changes no localStorage
\* key.
C13_AbsentUidNoOp ==
  [][(lastEvent'.kind = "call" /\ lastEvent'.uid = "") =>
       UNCHANGED <<dataVars, mig, writes, pulls, subs, started, syncUnsubRef, pending>>]_vars

\* C13 witness: startRealtimeSync has been called with an empty uid, the last
\* of the calls of a behaviour, while the local and the remote store differ and
\* nothing is subscribed or in progress.
C13_Witness ==
  /\ lastEvent.kind = "call" /\ lastEvent.uid = ""
  /\ lastEvent.col = "startRealtimeSync"
  /\ subs = {} /\ pulls = << >> /\ mig.pc = "idle" /\ pending = << >>
  /\ events = MaxEvents
  /\ \E c \in ColNames : localCols[c] # remoteCols["u1"][c]

\* C14 -- cascade delete: after handleDeletePerson(p) the person p is not in
\* people and the other people are as before; every group and support request
\* is still there, its memberIds (helperIds) is the old list without p, in the
\* old order, and its other fields are as before.
WithoutId(list, p) == SelectSeq(list, LAMBDA x : x # p)
C14_CascadeDelete ==
  [][\A p \in Ids : DeleteRecord("people", p) =>
       /\ DOMAIN state'["people"] = DOMAIN state["people"] \ {p}
       /\ \A q \in DOMAIN state'["people"] : state'["people"][q] = state["people"][q]
       /\ DOMAIN state'["groups"] = DOMAIN state["groups"]
       /\ \A g \in DOMAIN state["groups"] :
            /\ state'["groups"][g]["memberIds"] = WithoutId(state["groups"][g]["memberIds"], p)
            /\ state'["groups"][g]["name"] = state["groups"][g]["name"]
       /\ DOMAIN state'["supportRequests"] = DOMAIN state["supportRequests"]
       /\ \A r \in DOMAIN state["supportRequests"] :
            /\ state'["supportRequests"][r]["helperIds"] =
                 WithoutId(state["supportRequests"][r]["helperIds"], p)
            /\ state'["supportRequests"][r]["name"] = state["supportRequests"][r]["name"]]_vars

\* C14 witness: person "1" was deleted; a group and a support request that
\* listed "1" and "2" (localStorage still has the old lists) now list "2" only.
C14_Witness ==
  /\ lastEvent.kind = "delete"
  /\ DOMAIN state["people"] = {"2"}
  /\ localCols["groups"]["1"]["memberIds"] = <<"1", "2">>
  /\ state["groups"]["1"]["memberIds"] = <<"2">>
  /\ localCols["supportRequests"]["1"]["helperIds"] = <<"2", "1">>
  /\ state["supportRequests"]["1"]["helperIds"] = <<"2">>

\* C15 -- lastConnection is monotone: no step moves the lastConnection of a
\* person or group to an earlier instant, and a step that changes it is the
\* logging or editing of an interaction.
C15_LastConnectionMonotone ==
  [][\A c \in {"people", "groups"} : \A id \in DOMAIN state[c] \cap DOMAIN state'[c] :
       /\ state'[c][id]["lastConnection"] >= state[c][id]["lastConnection"]
       /\ state'[c][id]["lastConnection"] # state[c][id]["lastConnection"]
            => lastEvent'.kind = "log"]_vars

C17_DashboardFeed ==
  LET due == DueConnections(state, clock)
      eligible == {x \in ({"people"} \X DOMAIN state["people"])
                          \cup ({"groups"} \X DOMAIN state["groups"]) :
                     LET item == state[x[1]][x[2]]
                     IN  /\ ~(Has(item, "isMe") /\ item["isMe"])
                         /\ ~(Has(item, "showOnDashboard") /\ ~item["showOnDashboard"])
                         /\ ~(Has(item, "snoozedUntil") /\ item["snoozedUntil"] > clock)}
      all == ItemsOf(state, "people") \o ItemsOf(state, "groups")
      Pos(x) == CHOOSE k \in 1..Len(all) : all[k] = x
      Amount(x) == GetOverdueAmount(state[x[1]][x[2]], clock)
  IN  /\ Range(due) = eligible
      /\ Len(due) = Cardinality(eligible)
      /\ \A i, j \in 1..Len(due) :
           i < j => /\ SignOfDifference(Amount(due[i]), Amount(due[j])) >= 0
                    /\ SignOfDifference(Amount(due[i]), Amount(due[j])) = 0
                         => Pos(due[i]) < Pos(due[j])

C19_MalformedNeverMutates ==
  [][/\ \A file \in BackupFiles :
          (/\ ImportBackup(file)
           /\ \/ ~file.parses
              \/ ~file.object
              \/ "people" \notin DOMAIN file.data
              \/ "circles" \notin DOMAIN file.data)
            => lastEvent'.kind = "alert" /\ UNCHANGED dataVars
     /\ (/\ MigrateFetch \/ MigrateCommit \/ MigrateSettings
         /\ \E c \in ColNames : mig.local[c] = Malformed)
          => UNCHANGED dataVars /\ ~(mig.pc = "settings" /\ mig'.pc = "idle")]_vars

\* C20: explicit deletes reach the remote store.  After the signed-in,
\* non-anonymous user has deleted a record of a synced collection, the
\* system reaches a state from which the id stays absent from the remote
\* collection and from React state: neither a realtime notification nor a
\* write-through sync brings the record back.
C20_ExplicitDeletesReachRemote ==
  \A c \in EditCols, id \in Ids :
    (lastEvent.kind = "delete" /\ id \notin DOMAIN state[c])
      ~> [](id \notin DOMAIN remoteCols["u1"][c] /\ id \notin DOMAIN state[c])

\* C21: the write-through sync deletes only what the user deleted.  A batch
\* of syncStateToCloud holds a delete for an id only if React state no
\* longer holds a record with that id; in particular a record that another
\* device added and a realtime notification delivered is not deleted while
\* the debounced copy of its collection is still the older one.
C21_DeletesOnlyUserDeleted ==
  [][(lastEvent'.kind = "effect" /\ lastEvent'.called) =>
       \A x \in pending'[Len(pending')].deletes : x[2] \notin DOMAIN state[x[1]]]_vars

\* C22: no lost update across devices.  Another device edited record X and
\* its write-through stored the edited X remotely (a form edit leaves
\* updatedAt as it was, or absent); this device still holds the pre-edit
\* copy.  When migrateLocalToCloud commits the collection, the remote X and
\* the local X have the edited values: the older version does not overwrite
\* the newer one.
C22_NoLostUpdate ==
  [][MigrateCommit =>
       \A id \in DOMAIN mig.remoteMap \cap DOMAIN mig.local[Collections[mig.idx]] :
         LET col == Collections[mig.idx]
             edited == mig.remoteMap[id]
             preEdit == mig.local[col][id]
         IN  (/\ edited["name"] # preEdit["name"]
              /\ (Has(edited, "updatedAt") =>
                    Has(preEdit, "updatedAt") /\ edited["updatedAt"] = preEdit["updatedAt"]))
               => /\ remoteCols'[mig.uid][col][id]["name"] = edited["name"]
                  /\ localCols'[col][id]["name"] = edited["name"]]_vars

C24_FlagPerSession ==
  realtimeInitialized = "1" => (authUser # NoUser /\ ~authUser.anon)

\* C25: single listener set.  At any time at most one set of realtime
\* subscriptions is active, and the handles of every set that is subscribed
\* are held in syncUnsubRef - also when two auth callbacks overlap while
\* pullRemoteToLocal is awaited and when onUpgradeSuccess starts realtime
\* sync.
C25_SingleListenerSet ==
  /\ Cardinality(subs) <= 1
  /\ \A s \in subs : s.sid \in syncUnsubRef

\* C26: settings follow last-writer-wins in reconcile.  When
\* migrateLocalToCloud writes the settings and the remote settings document
\* carries an updatedAt larger than that of the local settings (which carry
\* none), the remote circles, connectionTypes, reminderLookahead and theme
\* are the values of both stores afterwards.
C26_SettingsLastWriterWins ==
  [][(MigrateSettings /\ Has(remoteSettings[mig.uid], "updatedAt")
        /\ remoteSettings[mig.uid]["updatedAt"] > 0) =>
       \A f \in {"circles", "connectionTypes", "reminderLookahead", "theme"} :
         /\ remoteSettings'[mig.uid][f] = remoteSettings[mig.uid][f]
         /\ localSettings'[f] = remoteSettings[mig.uid][f]]_vars


\* C27: the click callback is invoked on a release if and only if no
\* pointermove of the gesture reported a horizontal displacement above the
\* drag threshold and the gesture was not disengaged as a scroll; a release
\* that invokes it schedules no swipe callback; and nothing but a release
\* invokes it.
C27_TapVersusDrag ==
  [][/\ swipe'.clicks # swipe.clicks => lastEvent'.kind = "up"
     /\ PointerUp =>
       /\ swipe'.clicks # swipe.clicks <=> (~swipe.beyondThreshold /\ ~swipe.isScrolling)
       /\ swipe'.clicks # swipe.clicks => swipe'.timers = swipe.timers]_vars

\* C28: in a gesture of one pointer that has not been disengaged, a
\* pointermove whose vertical displacement exceeds the drag threshold and the
\* horizontal displacement, delivered before the gesture is a drag,
\* disengages the widget: its listeners leave window, the row is at offset 0
\* and no click or swipe callback is invoked or scheduled; any other
\* pointermove leaves it engaged, and a drag stays a drag.  While the
\* widget is disengaged nothing but a new pointer-down moves the row or
\* invokes or schedules a callback.
C28_VerticalFirstDisengage ==
  [][/\ \A deltaX \in DeltasX, deltaY \in DeltasY :
          (PointerMove(deltaX, deltaY) /\ swipe.listeners = 1 /\ ~swipe.isScrolling) =>
             IF ~swipe.isDragging /\ Abs(deltaY) > DRAG_THRESHOLD
                  /\ Abs(deltaY) > Abs(deltaX)
               THEN /\ swipe'.isScrolling
                    /\ swipe'.listeners = 0
                    /\ swipe'.transform = Px(0)
                    /\ swipe'.clicks = swipe.clicks
                    /\ swipe'.timers = swipe.timers
                    /\ swipe'.called = swipe.called
               ELSE /\ ~swipe'.isScrolling
                    /\ swipe'.listeners = 1
                    /\ swipe.isDragging => swipe'.isDragging
     /\ (swipe.isScrolling /\ swipe.listeners = 0 /\ lastEvent'.kind # "down") =>
          /\ swipe'.transform = swipe.transform
          /\ swipe'.clicks = swipe.clicks
          /\ Len(swipe'.timers) <= Len(swipe.timers)]_vars

\* C29: no event invokes or schedules more than one callback among click,
\* swipe-left action and swipe-right action; after a release no listener of
\* the row remains on window, however many pointers went down; and a disabled
\* row registers no listener and invokes and schedules no callback.
C29_OneOutcomePerGesture ==
  [][/\ (swipe'.clicks - swipe.clicks)
          + (Len(swipe'.timers) + Len(swipe'.called))
          - (Len(swipe.timers) + Len(swipe.called)) <= 1
     /\ PointerUp => swipe'.listeners = 0
     /\ swipe.isDisabled =>
          /\ swipe'.listeners = 0
          /\ swipe'.clicks = 0
          /\ swipe'.timers = << >>
          /\ swipe'.called = << >>]_vars

\* C30: for every support request, getNextToAsk returns null exactly when
\* the request has no helpers; otherwise it returns a helper of the request
\* such that no helper of the request was last asked for it earlier (a helper
\* never asked for it counting as asked before any date) and every helper
\* listed before it was last asked for it later; and the result is the one
\* computed from the asks of that request alone.
C30_NextHelperToAsk ==
  \A r \in DOMAIN state["supportRequests"] :
    LET sr == state["supportRequests"][r]
        helpers == sr.helperIds
        history == state["askHistory"]
        next == GetNextToAsk(sr, history)
        AskDates(h) == {history[k].date : k \in {k \in 1..Len(history) :
                                               /\ history[k].supportRequestId = r
                                               /\ history[k].helperId = h}}
        \* h was last asked no later than g
        NoLater(h, g) ==
          \/ AskDates(h) = {}
          \/ /\ AskDates(g) # {}
             /\ \E dh \in AskDates(h) : \E dg \in AskDates(g) :
                  /\ \A d \in AskDates(h) : d <= dh
                  /\ \A d \in AskDates(g) : d <= dg
                  /\ dh <= dg
    IN  /\ next = Null <=> helpers = << >>
        /\ helpers # << >> =>
             \E i \in 1..Len(helpers) :
               /\ next = helpers[i]
               /\ \A j \in 1..Len(helpers) : NoLater(next, helpers[j])
               /\ \A j \in 1..(i - 1) : ~NoLater(helpers[j], next)
        /\ next = GetNextToAsk(sr, SelectSeq(history, LAMBDA e : e.supportRequestId = r))

\* C30 witness: every helper of a request of two or more helpers has been
\* asked for it, the helper listed first more recently than another, so that
\* getNextToAsk names a helper that is not the first; and the helper it names
\* has since been asked for another request.
C30_Witness ==
  \E r \in DOMAIN state["supportRequests"] :
    LET sr == state["supportRequests"][r]
        history == state["askHistory"]
        next == GetNextToAsk(sr, history)
    IN  /\ lastEvent.kind = "ask"
        /\ Len(sr.helperIds) >= 2
        /\ \A i \in 1..Len(sr.helperIds) :
             \E k \in 1..Len(history) : /\ history[k].supportRequestId = r
                                        /\ history[k].helperId = sr.helperIds[i]
        /\ next # sr.helperIds[1]
        /\ \E k, l \in 1..Len(history) :
             /\ history[k].supportRequestId # r
             /\ history[k].helperId = next
             /\ history[l].supportRequestId = r
             /\ history[l].helperId = sr.helperIds[1]
             /\ history[k].date >= history[l].date

=============================================================================
